---- MODULE Spec2Model ----
(***************************************************************************)
(* Signal-driven lifecycle state machine of the daemon boilerplate         *)
(* (class app::Daemon, daemon.hpp / daemon.cpp) and the poll thread that   *)
(* drives it.  The poll thread executes the Daemon member functions step   *)
(* by step; the signal handler may run between any two of its steps.       *)
(***************************************************************************)
EXTENDS Integers, Sequences, FiniteSets, TLC

(***************************************************************************)
(* Program constants                                                       *)
(***************************************************************************)
\* Daemon::State
States == {"Start", "Running", "Reload", "Stop", "User1", "User2"}

\* the three states isRunning() drains
Transient == {"Reload", "User1", "User2"}

\* signal numbers (<csignal>, Linux)
kExitSignal == 2
kTerminateSignal == 15
kReloadSignal == 1
kUserSignal1 == 10
kUserSignal2 == 12
\* a signal number the handler has no case for (SIGQUIT)
kOtherSignal == 3

Signals == {kExitSignal, kTerminateSignal, kReloadSignal, kUserSignal1,
            kUserSignal2, kOtherSignal}

\* process ids: of the launched process, and of the child that daemon()
\* leaves running
LaunchPid == 407
DetachedPid == 408

\* std::optional<bool>: true, false, std::nullopt
Outcome == {"Succeeded", "Failed", "Unspecified"}

\* an empty std::function, and the closures a host may register
Empty == "empty"
Funcs == {"f1"}

\* the five callback slots
Slots == {"start", "reload", "user1", "user2", "close"}

(***************************************************************************)
(* Bounds                                                                  *)
(***************************************************************************)
\* longest row of consecutive startAll() calls that is counted
MaxRow == 2

VARIABLES
  m_State,                 \* Daemon::m_State
  m_HandlerBeforeToStart,  \* the five std::function members
  m_HandlerReload,
  m_HandlerUser1,
  m_HandlerUser2,
  m_HandlerBeforeToExit,
  pc,                      \* position of the poll thread inside the Daemon API
  ret,                     \* value returned by the last completed call
  cout,                    \* last line the Daemon class wrote to std::cout
  hpc,                     \* position of the host's main()
  exitCode,                \* exit status of main(), "none" while it runs
  daemonConfig,            \* app::DaemonConfig filled from the command line
  m_IsInitialized,         \* Daemon::m_IsInitialized
  m_Pid,                   \* Daemon::m_Pid
  m_PidFileName,           \* Daemon::m_PidFileName
  procPid,                 \* what getpid() returns
  pidFile,                 \* content of the PID file, <<>> while not written
  stop_requested,          \* stop_src has a stop request
  stop_cb,                 \* the worker's std::stop_callback is registered
  wpc,                     \* position of the worker thread taskAppContext
  event_mutex,             \* owner of daemon_event.event_mutex
  notified,                \* the waiting worker was notified on event_condition
  guard,                   \* initialisation guard of the static in Daemon::instance()
  ipc,                     \* position of each thread that calls Daemon::instance()
  icalls,                  \* calls of Daemon::instance() made by each thread
  installed,               \* the calls of signal() made so far, in order
  g_ctor,                  \* history: constructions of the Daemon object begun
  sooner,                  \* the local sooner of TaskController::runTask
  g_task,                  \* history: what the iteration of runTask did
  cmdLine,                 \* the words of argv that getopt_long has not scanned
  g_cmd,                   \* history: what getopt_long found on the command line
  stopSource,              \* TaskApp::stopSource: the stop state it refers to
  stopState,               \* the stop states that have a stop request
  taskAppContextThread,    \* TaskApp::taskAppContextThread: its thread, 0: none
  threadPos,               \* position of each thread started by TaskApp::start()
  threadToken,             \* stop state of the token each of these threads got
  g_app,                   \* history: calls of TaskApp::start() and stop()
  g_op,                    \* history: member function in progress / last completed
  g_prevOp,                \* history: the call completed before g_op began
  g_make,                  \* history: calls of makeDaemon() and what they did
  g_watch,                 \* history: which of g_between, g_pend, g_startRow is kept
  g_atCall,                \* history: m_State when the call g_op began
  g_sigSince,              \* history: a signal was delivered since the call began
  g_cbs,                   \* history: callback slots invoked during the call
  g_cbOut,                 \* history: outcome of the callback of the call
  g_between,               \* history: signals delivered between two isRunning() calls
  g_pend,                  \* history: last delivered transient signal
  g_startRow,              \* history: consecutive startAll() calls, callbacks
  g_wasStop                \* history: state was Stop inside the host's loop

daemonVars == <<m_State, m_HandlerBeforeToStart, m_HandlerReload,
                m_HandlerUser1, m_HandlerUser2, m_HandlerBeforeToExit>>
handlerVars == <<m_HandlerBeforeToStart, m_HandlerReload, m_HandlerUser1,
                 m_HandlerUser2, m_HandlerBeforeToExit>>
envVars == <<exitCode, daemonConfig, m_IsInitialized, m_Pid, m_PidFileName,
             procPid, pidFile, stop_requested, stop_cb, wpc, event_mutex,
             notified>>
histVars == <<g_watch, g_prevOp, g_make, g_op, g_atCall, g_sigSince, g_cbs,
              g_cbOut,
              g_between, g_pend, g_startRow, g_wasStop>>
instVars == <<guard, ipc, icalls, installed, g_ctor>>
taskVars == <<sooner, g_task>>
cmdVars == <<cmdLine, g_cmd>>
appVars == <<stopSource, stopState, taskAppContextThread, threadPos,
             threadToken, g_app>>
otherVars == <<instVars, taskVars, cmdVars, appVars>>
vars == <<m_State, m_HandlerBeforeToStart, m_HandlerReload, m_HandlerUser1,
          m_HandlerUser2, m_HandlerBeforeToExit, pc, ret, cout, hpc,
          exitCode, daemonConfig, m_IsInitialized, m_Pid, m_PidFileName,
          procPid, pidFile, stop_requested, stop_cb, wpc, event_mutex,
          notified, g_watch, g_prevOp, g_make, g_op, g_atCall, g_sigSince,
          g_cbs, g_cbOut, g_between, g_pend, g_startRow, g_wasStop, guard, ipc, icalls,
          installed, g_ctor, sooner, g_task, cmdLine, g_cmd, stopSource,
          stopState, taskAppContextThread, threadPos, threadToken, g_app>>

(***************************************************************************)
(* Helpers                                                                 *)
(***************************************************************************)
\* variant: an empty optional is taken as a failure
OptEqFalse_NulloptFails(o) == o # "Succeeded"

\* operator==(const std::optional<bool>&, bool) with the bool false:
\* an empty optional never equals a value
OptEqFalse(o) == o = "Failed"

\* variant: the host takes every result but true as fatal
HostFatal_NotTrue(o) == o # "Succeeded"

\* if (auto result = ...; result.has_value() && !result.value())
HostFatal(o) == o = "Failed"

\* variant: the case label of kTerminateSignal is missing
signalState_NoTerminate(sig, cur) ==
  CASE sig = kExitSignal      -> "Stop"
    [] sig = kReloadSignal    -> "Reload"
    [] sig = kUserSignal1     -> "User1"
    [] sig = kUserSignal2     -> "User2"
    [] OTHER                  -> cur

\* variant: a signal does not overwrite Stop
signalState_StickyStop(sig, cur) ==
  IF cur = "Stop" THEN cur
  ELSE CASE sig = kExitSignal      -> "Stop"
         [] sig = kTerminateSignal -> "Stop"
         [] sig = kReloadSignal    -> "Reload"
         [] sig = kUserSignal1     -> "User1"
         [] sig = kUserSignal2     -> "User2"
         [] OTHER                  -> cur

\* the switch of Daemon::signalHandler: the state a signal writes, or the
\* current state when the signal has no case
signalState(sig, cur) ==
  CASE sig = kExitSignal      -> "Stop"
    [] sig = kTerminateSignal -> "Stop"
    [] sig = kReloadSignal    -> "Reload"
    [] sig = kUserSignal1     -> "User1"
    [] sig = kUserSignal2     -> "User2"
    [] OTHER                  -> cur

\* variant: performUser2IfRequired uses m_HandlerUser1
SlotOf_User2CallsUser1(t) ==
  CASE t = "Reload" -> "reload"
    [] t = "User1"  -> "user1"
    [] t = "User2"  -> "user1"

\* the callback slot isRunning() dispatches to for a transient state
SlotOf(t) ==
  CASE t = "Reload" -> "reload"
    [] t = "User1"  -> "user1"
    [] t = "User2"  -> "user2"

\* the std::function member behind a slot
Handler(slot) ==
  CASE slot = "start"  -> m_HandlerBeforeToStart
    [] slot = "reload" -> m_HandlerReload
    [] slot = "user1"  -> m_HandlerUser1
    [] slot = "user2"  -> m_HandlerUser2
    [] slot = "close"  -> m_HandlerBeforeToExit

NoPend == [st |-> "none", cb |-> 0, polls |-> 0, mid |-> FALSE]
NoRow == [n |-> 0, cb |-> 0]

\* longest remembered suffix of the signals delivered between two calls
MaxBetween == 2

\* no call of makeDaemon() yet: number of calls, of daemon() calls, of writes
\* to the PID file; whether daemon() succeeded and whether the PID file could
\* be opened in the first call ("yes", "no", "none" when not attempted)
NoMake == [calls |-> 0, detach |-> 0, writes |-> 0, detached |-> "none",
           opened |-> "none"]

\* nothing recorded about runTask: the argument and the result of the last
\* call of serveFunction, the timeout of the wait of the iteration (0: no
\* wait), how that wait ended, the notifications made by the stop callback,
\* whether the host notified the event after its stop request, the starts and
\* stops of the owner, and of the thread started last: whether it called
\* serveFunction, how many of its calls began with the stop requested
\* (counted up to 2), whether its last test of the token saw the request
NoTask == [arg |-> 0, res |-> 0, timeout |-> 0, wake |-> "none",
           observer |-> 0, hostNotified |-> FALSE, starts |-> 0, stops |-> 0,
           live |-> 0, lastStop |-> "none",
           served |-> 0, after |-> 0, observed |-> FALSE]

NoCmd == [word |-> "none", why |-> "none", bad |-> "none"]

NoBetween == [sigs |-> <<>>, closed |-> TRUE]

\* the last MaxBetween elements of a sequence
Suffix(q) == IF Len(q) <= MaxBetween THEN q
             ELSE SubSeq(q, Len(q) - MaxBetween + 1, Len(q))

Min(a, b) == IF a < b THEN a ELSE b

(***************************************************************************)
(* History bookkeeping shared by the calls of the poll thread              *)
(***************************************************************************)
\* the row of consecutive startAll() calls when the call of op begins
RowBegin(op) ==
  IF g_watch # "row" \/ op # "startAll" THEN NoRow
  ELSE IF g_op = "startAll" /\ g_startRow.n < MaxRow
    THEN [g_startRow EXCEPT !.n = @ + 1]
    ELSE [n |-> 1, cb |-> 0]

\* the call that was completed, undisturbed by a signal, when a call of
\* isRunning() begins
PrevBegin(op) ==
  IF g_watch # "prev" \/ op # "isRunning" THEN "none"
  ELSE IF g_sigSince THEN "disturbed"
  ELSE g_op

\* a member function op begins
CallBegin(op) ==
  /\ UNCHANGED <<g_watch, otherVars>>
  /\ g_op' = op
  /\ g_prevOp' = PrevBegin(op)
  /\ op # "makeDaemon" => g_make' = g_make
  /\ g_atCall' = m_State
  /\ g_sigSince' = FALSE
  /\ g_between' = IF g_watch # "between" \/ op # "isRunning"
                       \/ g_op # "isRunning" \/ g_between.closed
                    THEN NoBetween
                    ELSE [g_between EXCEPT !.closed = TRUE]
  /\ op # "startAll" => g_startRow' = NoRow

\* the start callback was invoked: count it in the row of startAll() calls
RowInvoke(row) == IF g_watch = "row" THEN [row EXCEPT !.cb = @ + 1] ELSE row

\* the poll thread is inside isRunning()
InPoll == pc \notin {"idle", "startAll_cb", "closeAll_cb"}

\* the pending transient signal after a call of isRunning() began: a verdict
\* reached by the previous poll is dropped
PendAtPoll == IF g_pend.polls >= 1 THEN NoPend ELSE g_pend

\* the pending transient signal after the callback of slot was invoked
PendInvoke(slot) ==
  IF g_pend.st \in Transient /\ SlotOf(g_pend.st) = slot
    THEN [g_pend EXCEPT !.cb = Min(g_pend.cb + 1, 2)]
    ELSE g_pend

\* the pending transient signal after isRunning() returned: the call counts
\* as a poll for the signal only when it began after the delivery
PendReturn ==
  IF g_pend.st = "none" THEN g_pend
  ELSE IF g_pend.mid THEN [g_pend EXCEPT !.mid = FALSE]
  ELSE [g_pend EXCEPT !.polls = 1]

\* positions of main() from the state write of startAll() to the end of the
\* poll loop
AfterStart == {"startAll", "makeDaemon", "spawn", "while", "while_test", "body"}

\* the state has been Stop at some moment between startAll() and the end of
\* the host's poll loop
WasStop == g_wasStop' = (g_wasStop \/ (hpc \in AfterStart /\ m_State' = "Stop"))

(***************************************************************************)
(* Daemon::signalHandler, in the asynchronous signal context               *)
(***************************************************************************)
signalHandler(sig) ==
  /\ cout' = <<"Interrupt signal number", sig>>
  /\ m_State' = signalState(sig, m_State)
  /\ g_sigSince' = TRUE
  /\ g_between' = IF g_watch # "between" \/ pc # "idle" \/ g_op # "isRunning"
                    THEN g_between
                  ELSE IF g_between.closed
                    THEN [sigs |-> <<sig>>, closed |-> FALSE]
                    ELSE [g_between EXCEPT !.sigs = Suffix(Append(@, sig))]
  /\ g_pend' = IF g_watch # "pending" THEN NoPend
               ELSE IF signalState(sig, "none") \in Transient
                 THEN [st |-> signalState(sig, "none"), cb |-> 0, polls |-> 0,
                       mid |-> InPoll]
               ELSE IF signalState(sig, "none") = "Stop" THEN NoPend
               ELSE g_pend
  /\ WasStop
  /\ UNCHANGED <<handlerVars, pc, ret, hpc, envVars, otherVars, g_watch, g_prevOp,
                 g_make, g_op, g_atCall, g_cbs,
                 g_cbOut, g_startRow>>

\* a signal is delivered to the process while it runs
Signal == hpc # "exited" /\ \E sig \in Signals : signalHandler(sig)

(***************************************************************************)
(* Daemon::startAll                                                        *)
(***************************************************************************)
\* variant: a stopped daemon is not restarted
startAllCall_KeepsStop ==
  /\ pc = "idle"
  /\ CallBegin("startAll")
  /\ m_State' = IF m_State = "Stop" THEN "Stop" ELSE "Running"
  /\ IF m_HandlerBeforeToStart # Empty
       THEN /\ pc' = "startAll_cb"
            /\ ret' = "pending"
            /\ g_cbs' = << <<"start", m_HandlerBeforeToStart>> >>
            /\ g_startRow' = RowInvoke(RowBegin("startAll"))
       ELSE /\ pc' = "idle"
            /\ ret' = "Unspecified"
            /\ g_cbs' = <<>>
            /\ g_startRow' = RowBegin("startAll")
  /\ g_cbOut' = "none"
  /\ g_pend' = NoPend
  /\ WasStop
  /\ UNCHANGED <<handlerVars, cout, envVars>>

\* variant: the start callback is skipped when the daemon is already running
startAllCall_OnceOnly ==
  /\ pc = "idle"
  /\ CallBegin("startAll")
  /\ m_State' = "Running"
  /\ IF m_HandlerBeforeToStart # Empty /\ m_State # "Running"
       THEN /\ pc' = "startAll_cb"
            /\ ret' = "pending"
            /\ g_cbs' = << <<"start", m_HandlerBeforeToStart>> >>
            /\ g_startRow' = RowInvoke(RowBegin("startAll"))
       ELSE /\ pc' = "idle"
            /\ ret' = "Unspecified"
            /\ g_cbs' = <<>>
            /\ g_startRow' = RowBegin("startAll")
  /\ g_cbOut' = "none"
  /\ g_pend' = NoPend
  /\ WasStop
  /\ UNCHANGED <<handlerVars, cout, envVars>>

\* variant: startAll() without a start callback fails and starts nothing
startAllCall_NeedsCallback ==
  /\ pc = "idle"
  /\ CallBegin("startAll")
  /\ IF m_HandlerBeforeToStart # Empty
       THEN /\ m_State' = "Running"
            /\ pc' = "startAll_cb"
            /\ ret' = "pending"
            /\ g_cbs' = << <<"start", m_HandlerBeforeToStart>> >>
            /\ g_startRow' = RowInvoke(RowBegin("startAll"))
       ELSE /\ m_State' = m_State
            /\ pc' = "idle"
            /\ ret' = "Failed"
            /\ g_cbs' = <<>>
            /\ g_startRow' = RowBegin("startAll")
  /\ g_cbOut' = "none"
  /\ g_pend' = NoPend
  /\ WasStop
  /\ UNCHANGED <<handlerVars, cout, envVars>>

startAllCall ==
  /\ pc = "idle"
  /\ CallBegin("startAll")
  /\ m_State' = "Running"
  /\ IF m_HandlerBeforeToStart # Empty
       THEN /\ pc' = "startAll_cb"
            /\ ret' = "pending"
            /\ g_cbs' = << <<"start", m_HandlerBeforeToStart>> >>
            /\ g_startRow' = RowInvoke(RowBegin("startAll"))
       ELSE /\ pc' = "idle"
            /\ ret' = "Unspecified"
            /\ g_cbs' = <<>>
            /\ g_startRow' = RowBegin("startAll")
  /\ g_cbOut' = "none"
  /\ g_pend' = NoPend
  /\ WasStop
  /\ UNCHANGED <<handlerVars, cout, envVars>>

\* return m_HandlerBeforeToStart();
startAllReturn ==
  /\ pc = "startAll_cb"
  /\ \E o \in Outcome : ret' = o /\ g_cbOut' = o
  /\ pc' = "idle"
  /\ UNCHANGED <<daemonVars, cout, hpc, envVars, otherVars, g_watch, g_prevOp,
                 g_make, g_op, g_atCall, g_sigSince,
                 g_cbs, g_between, g_pend, g_startRow, g_wasStop>>

(***************************************************************************)
(* Daemon::reloadAll                                                       *)
(***************************************************************************)
\* variant: reloadAll() runs the reload callback itself
reloadAllCall_RunsCallback ==
  /\ pc = "idle"
  /\ CallBegin("reloadAll")
  /\ m_State' = "Reload"
  /\ ret' = "Unspecified"
  /\ g_cbs' = IF m_HandlerReload # Empty
               THEN << <<"reload", m_HandlerReload>> >> ELSE <<>>
  /\ g_cbOut' = "none"
  /\ g_pend' = NoPend
  /\ WasStop
  /\ UNCHANGED <<handlerVars, pc, cout, envVars>>

reloadAllCall ==
  /\ pc = "idle"
  /\ CallBegin("reloadAll")
  /\ m_State' = "Reload"
  /\ ret' = "Unspecified"
  /\ g_cbs' = <<>>
  /\ g_cbOut' = "none"
  /\ g_pend' = NoPend
  /\ WasStop
  /\ UNCHANGED <<handlerVars, pc, cout, envVars>>

(***************************************************************************)
(* Daemon::closeAll                                                        *)
(***************************************************************************)
\* variant: the close callback is skipped when the state is Stop already
closeAllCall_SkipsWhenStopped ==
  /\ pc = "idle"
  /\ CallBegin("closeAll")
  /\ m_State' = "Stop"
  /\ IF m_HandlerBeforeToExit # Empty /\ m_State # "Stop"
       THEN /\ pc' = "closeAll_cb"
            /\ ret' = "pending"
            /\ g_cbs' = << <<"close", m_HandlerBeforeToExit>> >>
       ELSE /\ pc' = "idle"
            /\ ret' = "Unspecified"
            /\ g_cbs' = <<>>
  /\ g_cbOut' = "none"
  /\ g_pend' = NoPend
  /\ WasStop
  /\ UNCHANGED <<handlerVars, cout, envVars>>

closeAllCall ==
  /\ pc = "idle"
  /\ CallBegin("closeAll")
  /\ m_State' = "Stop"
  /\ IF m_HandlerBeforeToExit # Empty
       THEN /\ pc' = "closeAll_cb"
            /\ ret' = "pending"
            /\ g_cbs' = << <<"close", m_HandlerBeforeToExit>> >>
       ELSE /\ pc' = "idle"
            /\ ret' = "Unspecified"
            /\ g_cbs' = <<>>
  /\ g_cbOut' = "none"
  /\ g_pend' = NoPend
  /\ WasStop
  /\ UNCHANGED <<handlerVars, cout, envVars>>

\* return m_HandlerBeforeToExit();
closeAllReturn ==
  /\ pc = "closeAll_cb"
  /\ \E o \in Outcome : ret' = o /\ g_cbOut' = o
  /\ pc' = "idle"
  /\ UNCHANGED <<daemonVars, cout, hpc, envVars, otherVars, g_watch, g_prevOp,
                 g_make, g_op, g_atCall, g_sigSince,
                 g_cbs, g_between, g_pend, g_startRow, g_wasStop>>

(***************************************************************************)
(* Daemon::setState                                                        *)
(***************************************************************************)
\* variant: setState() cannot force a transient state
setStateCall_KeepsTransient(state) ==
  /\ pc = "idle"
  /\ CallBegin("setState_" \o state)
  /\ m_State' = IF state \in Transient THEN m_State ELSE state
  /\ ret' = "void"
  /\ g_cbs' = <<>>
  /\ g_cbOut' = "none"
  /\ g_pend' = NoPend
  /\ WasStop
  /\ UNCHANGED <<handlerVars, pc, cout, envVars>>

\* void setState(State state) { m_State = state; }; the history keeps the
\* argument with the name of the call
setStateCall(state) ==
  /\ pc = "idle"
  /\ CallBegin("setState_" \o state)
  /\ m_State' = state
  /\ ret' = "void"
  /\ g_cbs' = <<>>
  /\ g_cbOut' = "none"
  /\ g_pend' = NoPend
  /\ WasStop
  /\ UNCHANGED <<handlerVars, pc, cout, envVars>>

(***************************************************************************)
(* Daemon::isRunning: every comparison reads m_State anew                  *)
(***************************************************************************)
\* if (m_State == State::Reload)
isRunningCall ==
  /\ pc = "idle"
  /\ CallBegin("isRunning")
  /\ pc' = IF m_State = "Reload" THEN "perform_Reload" ELSE "isRunning_User1"
  /\ ret' = "pending"
  /\ g_cbs' = <<>>
  /\ g_cbOut' = "none"
  /\ g_pend' = PendAtPoll
  /\ UNCHANGED <<daemonVars, cout, envVars, g_wasStop>>

\* else if (m_State == State::User1)
isRunningUser1 ==
  /\ pc = "isRunning_User1"
  /\ pc' = IF m_State = "User1" THEN "perform_User1" ELSE "isRunning_User2"
  /\ UNCHANGED <<daemonVars, ret, cout, hpc, envVars, histVars, otherVars>>

\* else if (m_State == State::User2)
isRunningUser2 ==
  /\ pc = "isRunning_User2"
  /\ pc' = IF m_State = "User2" THEN "perform_User2" ELSE "isRunning_ret"
  /\ UNCHANGED <<daemonVars, ret, cout, hpc, envVars, histVars, otherVars>>

\* variant: a daemon that was never started is started by the poll
isRunningReturn_StartsWhenFresh ==
  /\ pc = "isRunning_ret"
  /\ m_State' = IF m_State = "Start" THEN "Running" ELSE m_State
  /\ ret' = (m_State' = "Running")
  /\ pc' = "idle"
  /\ g_pend' = PendReturn
  /\ UNCHANGED <<handlerVars, cout, hpc, envVars, otherVars, g_watch, g_prevOp,
                 g_make, g_op, g_atCall, g_sigSince,
                 g_cbs, g_cbOut, g_between, g_startRow, g_wasStop>>

\* return m_State == State::Running;
isRunningReturn ==
  /\ pc = "isRunning_ret"
  /\ ret' = (m_State = "Running")
  /\ pc' = "idle"
  /\ g_pend' = PendReturn
  /\ UNCHANGED <<daemonVars, cout, hpc, envVars, otherVars, g_watch, g_prevOp,
                 g_make, g_op, g_atCall, g_sigSince,
                 g_cbs, g_cbOut, g_between, g_startRow, g_wasStop>>

\* variant: a transient state without a registered handler stops the daemon
PerformReset_UnregisteredStops(t) ==
  /\ pc = "perform_" \o t
  /\ m_State' = IF Handler(SlotOf(t)) # Empty THEN "Running" ELSE "Stop"
  /\ IF Handler(SlotOf(t)) # Empty
       THEN /\ pc' = "callback_" \o t
            /\ g_cbs' = Append(g_cbs, <<SlotOf(t), Handler(SlotOf(t))>>)
            /\ g_pend' = PendInvoke(SlotOf(t))
       ELSE /\ pc' = "isRunning_ret"
            /\ UNCHANGED <<g_cbs, g_pend>>
  /\ UNCHANGED <<handlerVars, ret, cout, hpc, envVars, otherVars, g_watch, g_prevOp,
                 g_make, g_op, g_atCall,
                 g_sigSince, g_cbOut, g_between, g_startRow, g_wasStop>>

\* perform<T>IfRequired up to the call of the handler:
\* m_State = State::Running; if (m_Handler<T>) ...
PerformReset(t) ==
  /\ pc = "perform_" \o t
  /\ m_State' = "Running"
  /\ IF Handler(SlotOf(t)) # Empty
       THEN /\ pc' = "callback_" \o t
            /\ g_cbs' = Append(g_cbs, <<SlotOf(t), Handler(SlotOf(t))>>)
            /\ g_pend' = PendInvoke(SlotOf(t))
       ELSE /\ pc' = "isRunning_ret"
            /\ UNCHANGED <<g_cbs, g_pend>>
  /\ UNCHANGED <<handlerVars, ret, cout, hpc, envVars, otherVars, g_watch, g_prevOp,
                 g_make, g_op, g_atCall,
                 g_sigSince, g_cbOut, g_between, g_startRow, g_wasStop>>

\* variant: a callback that fails leaves the state as it is
PerformResult_IgnoresFailure(t) ==
  /\ pc = "callback_" \o t
  /\ \E o \in Outcome : g_cbOut' = o
  /\ m_State' = m_State
  /\ pc' = "isRunning_ret"
  /\ WasStop
  /\ UNCHANGED <<handlerVars, ret, cout, hpc, envVars, otherVars, g_watch, g_prevOp,
                 g_make, g_op, g_atCall,
                 g_sigSince, g_cbs, g_between, g_pend, g_startRow>>

\* perform<T>IfRequired from the return of the handler:
\* if (m_Handler<T>() == false) m_State = State::Stop;
PerformResult(t) ==
  /\ pc = "callback_" \o t
  /\ \E o \in Outcome :
       /\ g_cbOut' = o
       /\ m_State' = IF OptEqFalse(o) THEN "Stop" ELSE m_State
  /\ pc' = "isRunning_ret"
  /\ WasStop
  /\ UNCHANGED <<handlerVars, ret, cout, hpc, envVars, otherVars, g_watch, g_prevOp,
                 g_make, g_op, g_atCall,
                 g_sigSince, g_cbs, g_between, g_pend, g_startRow>>

performReloadIfRequired == PerformReset("Reload") \/ PerformResult("Reload")

performUser1IfRequired == PerformReset("User1") \/ PerformResult("User1")

performUser2IfRequired == PerformReset("User2") \/ PerformResult("User2")

(***************************************************************************)
(* Daemon::set*Function                                                    *)
(***************************************************************************)
\* what every set*Function does beside the assignment: nothing; the history
\* keeps the slot and the closure with the name of the call
SetterCall(slot, func) ==
  /\ pc = "idle"
  /\ CallBegin("set_" \o slot \o "_" \o func)
  /\ ret' = "void"
  /\ g_cbs' = <<>>
  /\ g_cbOut' = "none"
  /\ g_pend' = NoPend
  /\ UNCHANGED <<m_State, pc, cout, envVars, g_wasStop>>

setStartFunction(func) ==
  /\ SetterCall("start", func)
  /\ m_HandlerBeforeToStart' = func
  /\ UNCHANGED <<m_HandlerReload, m_HandlerUser1, m_HandlerUser2,
                 m_HandlerBeforeToExit>>

\* variant: a registered reload callback is not replaced
setReloadFunction_FirstWins(func) ==
  /\ SetterCall("reload", func)
  /\ m_HandlerReload' = IF m_HandlerReload = Empty THEN func ELSE m_HandlerReload
  /\ UNCHANGED <<m_HandlerBeforeToStart, m_HandlerUser1, m_HandlerUser2,
                 m_HandlerBeforeToExit>>

setReloadFunction(func) ==
  /\ SetterCall("reload", func)
  /\ m_HandlerReload' = func
  /\ UNCHANGED <<m_HandlerBeforeToStart, m_HandlerUser1, m_HandlerUser2,
                 m_HandlerBeforeToExit>>

setUser1Function(func) ==
  /\ SetterCall("user1", func)
  /\ m_HandlerUser1' = func
  /\ UNCHANGED <<m_HandlerBeforeToStart, m_HandlerReload, m_HandlerUser2,
                 m_HandlerBeforeToExit>>

setUser2Function(func) ==
  /\ SetterCall("user2", func)
  /\ m_HandlerUser2' = func
  /\ UNCHANGED <<m_HandlerBeforeToStart, m_HandlerReload, m_HandlerUser1,
                 m_HandlerBeforeToExit>>

setCloseFunction(func) ==
  /\ SetterCall("close", func)
  /\ m_HandlerBeforeToExit' = func
  /\ UNCHANGED <<m_HandlerBeforeToStart, m_HandlerReload, m_HandlerUser1,
                 m_HandlerUser2>>

(***************************************************************************)
(* The Daemon object driven by an arbitrary caller                         *)
(***************************************************************************)
\* the threads that call Daemon::instance()
Threads == {"t1", "t2", "t3"}

\* the signal() calls of the constructor, in its order
Registrations == <<kExitSignal, kTerminateSignal, kReloadSignal, kUserSignal1,
                   kUserSignal2>>

\* the Daemon object exists: Daemon::instance() was called and returned
Constructed ==
  /\ guard = "done"
  /\ ipc = [t \in Threads |-> "out"]
  /\ icalls = [t \in Threads |-> 0]
  /\ installed = Registrations
  /\ g_ctor = 1

\* the member initializers of class Daemon
Members ==
  /\ m_State = "Start"
  /\ m_HandlerBeforeToStart = Empty
  /\ m_HandlerReload = Empty
  /\ m_HandlerUser1 = Empty
  /\ m_HandlerUser2 = Empty
  /\ m_HandlerBeforeToExit = Empty
  /\ pc = "idle"
  /\ ret = "none"
  /\ cout = <<>>
  /\ exitCode = "none"
  /\ daemonConfig = [pidFile |-> "", isDaemon |-> FALSE, hasTestConsole |-> FALSE]
  /\ m_IsInitialized = FALSE
  /\ m_Pid = -1
  /\ m_PidFileName = ""
  /\ procPid = LaunchPid
  /\ pidFile = <<>>
  /\ stop_requested = FALSE
  /\ stop_cb = FALSE
  /\ wpc = "unstarted"
  /\ event_mutex = "free"
  /\ notified = FALSE
  /\ g_op = "none"
  /\ g_prevOp = "none"
  /\ g_make = NoMake
  /\ g_atCall = "Start"
  /\ g_sigSince = FALSE
  /\ g_cbs = <<>>
  /\ g_cbOut = "none"
  /\ g_between = NoBetween
  /\ g_pend = NoPend
  /\ g_startRow = NoRow
  /\ g_wasStop = FALSE

\* no TaskController was started
TaskIdle == sooner = 0 /\ g_task = NoTask

\* no command line is being parsed
CmdIdle == cmdLine = <<>> /\ g_cmd = NoCmd

\* TaskApp::start() is called at most MaxAppStarts times
MaxAppStarts == 2

\* TaskApp::stop() is called at most MaxAppStops times
MaxAppStops == 2

\* the threads TaskApp::start() creates, in the order of the calls
AppThreads == 1..MaxAppStarts

NoApp == [starts |-> 0, stops |-> 0, dtor |-> FALSE]

\* a TaskApp after its constructor: stopSource default-constructed (stop
\* state 0, no request), taskAppContextThread without a thread
AppIdle ==
  /\ stopSource = 0
  /\ stopState = {}
  /\ taskAppContextThread = 0
  /\ threadPos = [k \in AppThreads |-> "unstarted"]
  /\ threadToken = [k \in AppThreads |-> 0]
  /\ g_app = NoApp

Setup == Members /\ Constructed /\ TaskIdle /\ CmdIdle /\ AppIdle

Init == Setup /\ hpc = "api" /\ g_watch = "none"

InitPending == Setup /\ hpc = "api" /\ g_watch = "pending"

InitBetween == Setup /\ hpc = "api" /\ g_watch = "between"

InitRow == Setup /\ hpc = "api" /\ g_watch = "row"

InitPrev == Setup /\ hpc = "api" /\ g_watch = "prev"

startAll == hpc = "api" /\ startAllCall /\ UNCHANGED hpc

reloadAll == hpc = "api" /\ reloadAllCall /\ UNCHANGED hpc

closeAll == hpc = "api" /\ closeAllCall /\ UNCHANGED hpc

isRunning == hpc = "api" /\ isRunningCall /\ UNCHANGED hpc

setState == hpc = "api" /\ \E state \in States : setStateCall(state) /\ UNCHANGED hpc

setFunction ==
  /\ hpc = "api"
  /\ UNCHANGED hpc
  /\ \E func \in Funcs \cup {Empty} :
       \/ setStartFunction(func)
       \/ setReloadFunction(func)
       \/ setUser1Function(func)
       \/ setUser2Function(func)
       \/ setCloseFunction(func)

\* the steps inside a member function, whoever called it
Steps ==
  \/ startAllReturn
  \/ closeAllReturn
  \/ isRunningUser1
  \/ isRunningUser2
  \/ isRunningReturn
  \/ performReloadIfRequired
  \/ performUser1IfRequired
  \/ performUser2IfRequired

Next ==
  \/ Signal
  \/ startAll
  \/ reloadAll
  \/ closeAll
  \/ isRunning
  \/ setState
  \/ setFunction
  \/ Steps

\* the closures a caller registers where the claims tell one closure from
\* another
Closures == {"f1", "f2"}

\* a caller that registers, replaces and removes callbacks
registerFunction ==
  /\ hpc = "api"
  /\ UNCHANGED hpc
  /\ \E func \in Closures \cup {Empty} :
       \/ setStartFunction(func)
       \/ setReloadFunction(func)
       \/ setUser1Function(func)
       \/ setUser2Function(func)
       \/ setCloseFunction(func)

\* the signals that make isRunning() invoke a callback
TriggerSignal ==
  \E sig \in {kReloadSignal, kUserSignal1, kUserSignal2} : signalHandler(sig)

NextSetters ==
  \/ TriggerSignal
  \/ registerFunction
  \/ startAll
  \/ closeAll
  \/ isRunning
  \/ Steps

SpecSetters == Init /\ [][NextSetters]_vars

Spec == Init /\ [][Next]_vars

SpecPending == InitPending /\ [][Next]_vars

SpecBetween == InitBetween /\ [][Next]_vars

SpecRow == InitRow /\ [][Next]_vars

SpecPrev == InitPrev /\ [][Next]_vars

(***************************************************************************)
(* Daemon::makeDaemon and Daemon::writePidToFile                           *)
(***************************************************************************)
\* std::to_string of a process id: its decimal digits
RECURSIVE to_string(_)
to_string(n) ==
  LET digit == <<"0", "1", "2", "3", "4", "5", "6", "7", "8", "9">>[(n % 10) + 1]
  IN IF n < 10 THEN <<digit>> ELSE Append(to_string(n \div 10), digit)

\* the record of the calls of makeDaemon() after one more call, which called
\* daemon() d times and wrote the PID file w times
MakeDone(d, w, detached, opened) ==
  [calls |-> g_make.calls + 1, detach |-> g_make.detach + d,
   writes |-> g_make.writes + w, detached |-> detached, opened |-> opened]

\* variant: a call that failed may be repeated
makeDaemonCall_Retries(pidFileName) ==
  /\ pc = "idle"
  /\ CallBegin("makeDaemon")
  /\ g_cbs' = <<>>
  /\ g_cbOut' = "none"
  /\ g_pend' = g_pend
  /\ IF ~m_IsInitialized
       THEN /\ m_PidFileName' = pidFileName
            /\ \E detached \in BOOLEAN, opened \in BOOLEAN :
                 IF ~detached
                   THEN /\ ret' = "Failed"
                        /\ g_make' = MakeDone(1, 0, "no", "none")
                        /\ UNCHANGED <<procPid, pidFile, m_Pid>>
                   ELSE /\ procPid' = DetachedPid
                        /\ IF pidFileName = ""
                             THEN /\ ret' = "Succeeded"
                                  /\ m_Pid' = procPid'
                                  /\ g_make' = MakeDone(1, 0, "yes", "none")
                                  /\ UNCHANGED pidFile
                             ELSE IF opened
                               THEN /\ pidFile' = to_string(procPid')
                                    /\ ret' = "Succeeded"
                                    /\ m_Pid' = procPid'
                                    /\ g_make' = MakeDone(1, 1, "yes", "yes")
                               ELSE /\ ret' = "Failed"
                                    /\ g_make' = MakeDone(1, 0, "yes", "no")
                                    /\ UNCHANGED <<pidFile, m_Pid>>
            /\ m_IsInitialized' = (ret' = "Succeeded")
       ELSE /\ ret' = "Failed"
            /\ g_make' = MakeDone(0, 0, g_make.detached, g_make.opened)
            /\ UNCHANGED <<m_IsInitialized, m_PidFileName, procPid, pidFile, m_Pid>>
  /\ UNCHANGED <<daemonVars, pc, cout, g_wasStop, exitCode, daemonConfig,
                 stop_requested, stop_cb, wpc, event_mutex, notified>>

\* variant: the result of writePidToFile is not looked at
makeDaemonCall_IgnoresOpenFailure(pidFileName) ==
  /\ pc = "idle"
  /\ CallBegin("makeDaemon")
  /\ g_cbs' = <<>>
  /\ g_cbOut' = "none"
  /\ g_pend' = g_pend
  /\ IF ~m_IsInitialized
       THEN /\ m_IsInitialized' = TRUE
            /\ m_PidFileName' = pidFileName
            /\ \E detached \in BOOLEAN, opened \in BOOLEAN :
                 IF ~detached
                   THEN /\ ret' = "Failed"
                        /\ g_make' = MakeDone(1, 0, "no", "none")
                        /\ UNCHANGED <<procPid, pidFile, m_Pid>>
                   ELSE /\ procPid' = DetachedPid
                        /\ IF pidFileName = ""
                             THEN /\ ret' = "Succeeded"
                                  /\ m_Pid' = procPid'
                                  /\ g_make' = MakeDone(1, 0, "yes", "none")
                                  /\ UNCHANGED pidFile
                             ELSE IF opened
                               THEN /\ pidFile' = to_string(procPid')
                                    /\ ret' = "Succeeded"
                                    /\ m_Pid' = procPid'
                                    /\ g_make' = MakeDone(1, 1, "yes", "yes")
                               ELSE /\ ret' = "Succeeded"
                                    /\ m_Pid' = procPid'
                                    /\ g_make' = MakeDone(1, 0, "yes", "no")
                                    /\ UNCHANGED pidFile
       ELSE /\ ret' = "Failed"
            /\ g_make' = MakeDone(0, 0, g_make.detached, g_make.opened)
            /\ UNCHANGED <<m_IsInitialized, m_PidFileName, procPid, pidFile, m_Pid>>
  /\ UNCHANGED <<daemonVars, pc, cout, g_wasStop, exitCode, daemonConfig,
                 stop_requested, stop_cb, wpc, event_mutex, notified>>

\* variant: the process id is taken before daemon() is called
makeDaemonCall_PidBeforeDetach(pidFileName) ==
  /\ pc = "idle"
  /\ CallBegin("makeDaemon")
  /\ g_cbs' = <<>>
  /\ g_cbOut' = "none"
  /\ g_pend' = g_pend
  /\ IF ~m_IsInitialized
       THEN /\ m_IsInitialized' = TRUE
            /\ m_PidFileName' = pidFileName
            /\ \E detached \in BOOLEAN, opened \in BOOLEAN :
                 IF ~detached
                   THEN /\ ret' = "Failed"
                        /\ g_make' = MakeDone(1, 0, "no", "none")
                        /\ UNCHANGED <<procPid, pidFile, m_Pid>>
                   ELSE /\ procPid' = DetachedPid
                        /\ IF pidFileName = ""
                             THEN /\ ret' = "Succeeded"
                                  /\ m_Pid' = procPid'
                                  /\ g_make' = MakeDone(1, 0, "yes", "none")
                                  /\ UNCHANGED pidFile
                             ELSE IF opened
                               THEN /\ pidFile' = to_string(procPid)
                                    /\ ret' = "Succeeded"
                                    /\ m_Pid' = procPid
                                    /\ g_make' = MakeDone(1, 1, "yes", "yes")
                               ELSE /\ ret' = "Failed"
                                    /\ g_make' = MakeDone(1, 0, "yes", "no")
                                    /\ UNCHANGED <<pidFile, m_Pid>>
       ELSE /\ ret' = "Failed"
            /\ g_make' = MakeDone(0, 0, g_make.detached, g_make.opened)
            /\ UNCHANGED <<m_IsInitialized, m_PidFileName, procPid, pidFile, m_Pid>>
  /\ UNCHANGED <<daemonVars, pc, cout, g_wasStop, exitCode, daemonConfig,
                 stop_requested, stop_cb, wpc, event_mutex, notified>>

\* daemon(0, 1) succeeded or not; the PID file could be opened or not
makeDaemonCall(pidFileName) ==
  /\ pc = "idle"
  /\ CallBegin("makeDaemon")
  /\ g_cbs' = <<>>
  /\ g_cbOut' = "none"
  /\ g_pend' = g_pend
  /\ IF ~m_IsInitialized
       THEN /\ m_IsInitialized' = TRUE
            /\ m_PidFileName' = pidFileName
            /\ \E detached \in BOOLEAN, opened \in BOOLEAN :
                 IF ~detached
                   THEN /\ ret' = "Failed"
                        /\ g_make' = MakeDone(1, 0, "no", "none")
                        /\ UNCHANGED <<procPid, pidFile, m_Pid>>
                   ELSE /\ procPid' = DetachedPid
                        /\ IF pidFileName = ""
                             THEN /\ ret' = "Succeeded"
                                  /\ m_Pid' = procPid'
                                  /\ g_make' = MakeDone(1, 0, "yes", "none")
                                  /\ UNCHANGED pidFile
                             ELSE IF opened
                               THEN /\ pidFile' = to_string(procPid')
                                    /\ ret' = "Succeeded"
                                    /\ m_Pid' = procPid'
                                    /\ g_make' = MakeDone(1, 1, "yes", "yes")
                               ELSE /\ ret' = "Failed"
                                    /\ g_make' = MakeDone(1, 0, "yes", "no")
                                    /\ UNCHANGED <<pidFile, m_Pid>>
       ELSE /\ ret' = "Failed"
            /\ g_make' = MakeDone(0, 0, g_make.detached, g_make.opened)
            /\ UNCHANGED <<m_IsInitialized, m_PidFileName, procPid, pidFile, m_Pid>>
  /\ UNCHANGED <<daemonVars, pc, cout, g_wasStop, exitCode, daemonConfig,
                 stop_requested, stop_cb, wpc, event_mutex, notified>>

\* paths a caller passes: none, or the name of a PID file
PidFileNames == {"", "daemon.pid"}

\* most calls of makeDaemon() by the arbitrary caller
MaxMake == 3

makeDaemon ==
  /\ hpc = "api"
  /\ g_make.calls < MaxMake
  /\ \E pidFileName \in PidFileNames : makeDaemonCall(pidFileName)
  /\ UNCHANGED hpc

\* a caller registers the start and the close callback
setLifecycleFunction ==
  /\ hpc = "api"
  /\ UNCHANGED hpc
  /\ \E func \in Funcs \cup {Empty} :
       \/ setStartFunction(func)
       \/ setCloseFunction(func)

\* a caller of the lifecycle functions: startAll(), makeDaemon() and
\* closeAll() in any order and number, signals at any moment
NextMake ==
  \/ Signal
  \/ makeDaemon
  \/ startAll
  \/ startAllReturn
  \/ closeAll
  \/ closeAllReturn
  \/ setLifecycleFunction

SpecMake == Init /\ [][NextMake]_vars

(***************************************************************************)
(* Daemon::instance() called by several threads: the function-local static *)
(* is initialised under its guard, the constructor registers the handlers  *)
(***************************************************************************)
\* most calls of Daemon::instance() by one thread
MaxInstanceCalls == 2

\* positions inside the constructor: before the k-th call of signal()
CtorAt == <<"ctor1", "ctor2", "ctor3", "ctor4", "ctor5">>

\* what an instance() step leaves alone besides the Daemon members
instFrame == <<pc, ret, cout, hpc, exitCode, daemonConfig, procPid, pidFile,
               stop_requested, stop_cb, wpc, event_mutex, notified, histVars,
               taskVars, cmdVars, appVars>>

memberVars == <<daemonVars, m_IsInitialized, m_Pid, m_PidFileName>>

\* a thread calls Daemon::instance()
InstanceCall(t) ==
  /\ ipc[t] = "out"
  /\ icalls[t] < MaxInstanceCalls
  /\ ipc' = [ipc EXCEPT ![t] = "guard"]
  /\ icalls' = [icalls EXCEPT ![t] = @ + 1]
  /\ UNCHANGED <<guard, installed, g_ctor, memberVars, instFrame>>

\* the storage of the static gets the member initializers
Construct ==
  /\ m_State' = "Start"
  /\ m_Pid' = -1
  /\ m_IsInitialized' = FALSE
  /\ m_PidFileName' = ""
  /\ m_HandlerBeforeToStart' = Empty
  /\ m_HandlerReload' = Empty
  /\ m_HandlerUser1' = Empty
  /\ m_HandlerUser2' = Empty
  /\ m_HandlerBeforeToExit' = Empty
  /\ g_ctor' = g_ctor + 1

\* variant: the static is initialised without the guard being waited for
InstanceGuard_Unsynchronised(t) ==
  /\ ipc[t] = "guard"
  /\ IF guard = "done"
       THEN /\ ipc' = [ipc EXCEPT ![t] = "return"]
            /\ UNCHANGED <<guard, g_ctor, memberVars>>
       ELSE /\ guard' = "busy"
            /\ ipc' = [ipc EXCEPT ![t] = CtorAt[1]]
            /\ Construct
  /\ UNCHANGED <<icalls, installed, instFrame>>

\* static Daemon instance; the first thread to come initialises it, a thread
\* that comes during the initialisation waits for its end
InstanceGuard(t) ==
  /\ ipc[t] = "guard"
  /\ CASE guard = "done" ->
            /\ ipc' = [ipc EXCEPT ![t] = "return"]
            /\ UNCHANGED <<guard, g_ctor, memberVars>>
       [] guard = "uninit" ->
            /\ guard' = "busy"
            /\ ipc' = [ipc EXCEPT ![t] = CtorAt[1]]
            /\ Construct
       [] guard = "busy" ->
            /\ ipc' = [ipc EXCEPT ![t] = "blocked"]
            /\ UNCHANGED <<guard, g_ctor, memberVars>>
  /\ UNCHANGED <<icalls, installed, instFrame>>

\* Daemon::Daemon(): signal(k..., Daemon::signalHandler), five times
DaemonCtor(t) ==
  /\ \E k \in 1..5 :
       /\ ipc[t] = CtorAt[k]
       /\ installed' = Append(installed, Registrations[k])
       /\ ipc' = [ipc EXCEPT ![t] = IF k < 5 THEN CtorAt[k + 1] ELSE "init_done"]
  /\ UNCHANGED <<guard, icalls, g_ctor, memberVars, instFrame>>

\* the initialisation is complete: the guard is released
InstanceInitDone(t) ==
  /\ ipc[t] = "init_done"
  /\ guard' = "done"
  /\ ipc' = [ipc EXCEPT ![t] = "return"]
  /\ UNCHANGED <<icalls, installed, g_ctor, memberVars, instFrame>>

\* a thread that waited for the initialisation goes on
InstanceWake(t) ==
  /\ ipc[t] = "blocked"
  /\ guard = "done"
  /\ ipc' = [ipc EXCEPT ![t] = "return"]
  /\ UNCHANGED <<guard, icalls, installed, g_ctor, memberVars, instFrame>>

\* return instance;
InstanceReturn(t) ==
  /\ ipc[t] = "return"
  /\ ipc' = [ipc EXCEPT ![t] = "out"]
  /\ UNCHANGED <<guard, icalls, installed, g_ctor, memberVars, instFrame>>

instance ==
  \E t \in Threads :
    \/ InstanceCall(t)
    \/ InstanceGuard(t)
    \/ DaemonCtor(t)
    \/ InstanceInitDone(t)
    \/ InstanceWake(t)
    \/ InstanceReturn(t)

\* a signal whose handler is registered is delivered to the constructed
\* object
InstalledSignal ==
  /\ guard = "done"
  /\ \E k \in 1..Len(installed) : signalHandler(installed[k])

\* before the first call of Daemon::instance()
InitInstance ==
  /\ Members
  /\ guard = "uninit"
  /\ ipc = [t \in Threads |-> "out"]
  /\ icalls = [t \in Threads |-> 0]
  /\ installed = <<>>
  /\ g_ctor = 0
  /\ TaskIdle
  /\ CmdIdle
  /\ AppIdle
  /\ hpc = "threads"
  /\ g_watch = "none"

NextInstance ==
  \/ instance
  \/ InstalledSignal

SpecInstance == InitInstance /\ [][NextInstance]_vars

(***************************************************************************)
(* The worker thread TaskAppContextFunc of the host                        *)
(***************************************************************************)
workerFrame == <<daemonVars, pc, ret, cout, hpc, exitCode, daemonConfig,
                 m_IsInitialized, m_Pid, m_PidFileName, procPid, pidFile,
                 histVars, otherVars>>

\* event_condition.notify_all(): a thread blocked in wait_for is released
notify_all == notified' = (notified \/ wpc \in {"w_waiting", "r_waiting"})

\* std::stop_callback stop_cb(token, ...): the callback runs at once when the
\* stop was requested before
WorkerRegister ==
  /\ wpc = "w_start"
  /\ stop_cb' = TRUE
  /\ wpc' = "w_loop"
  /\ UNCHANGED <<workerFrame, stop_requested, event_mutex, notified>>

\* std::unique_lock lck(daemon_event.event_mutex);
WorkerLock ==
  /\ wpc = "w_loop"
  /\ event_mutex = "free"
  /\ event_mutex' = "worker"
  /\ wpc' = "w_locked"
  /\ UNCHANGED <<workerFrame, stop_requested, stop_cb, notified>>

\* wait_for releases the mutex and blocks
WorkerWait ==
  /\ wpc = "w_locked"
  /\ event_mutex' = "free"
  /\ notified' = FALSE
  /\ wpc' = "w_waiting"
  /\ UNCHANGED <<workerFrame, stop_requested, stop_cb>>

\* wait_for ends, by a notification or by the timeout of 1000 ms, and takes
\* the mutex again
WorkerWake ==
  /\ wpc = "w_waiting"
  /\ event_mutex = "free"
  /\ event_mutex' = "worker"
  /\ wpc' = "w_woken"
  /\ UNCHANGED <<workerFrame, stop_requested, stop_cb, notified>>

\* end of the locked block
WorkerUnlock ==
  /\ wpc = "w_woken"
  /\ event_mutex' = "free"
  /\ wpc' = "w_check"
  /\ UNCHANGED <<workerFrame, stop_requested, stop_cb, notified>>

\* if (token.stop_requested()) break;
WorkerCheck ==
  /\ wpc = "w_check"
  /\ wpc' = IF stop_requested THEN "w_done" ELSE "w_loop"
  /\ stop_cb' = IF stop_requested THEN FALSE ELSE stop_cb
  /\ UNCHANGED <<workerFrame, stop_requested, event_mutex, notified>>

TaskAppContextFunc ==
  \/ WorkerRegister
  \/ WorkerLock
  \/ WorkerWait
  \/ WorkerWake
  \/ WorkerUnlock
  \/ WorkerCheck

(***************************************************************************)
(* main() of the host                                                      *)
(***************************************************************************)
\* command lines: no option, -D, -T, -D -P daemon.pid
CommandLines == {<<>>, <<"D">>, <<"T">>, <<"D", "P">>}

\* the switch of process_command_line, option by option
RECURSIVE process_command_line(_, _)
process_command_line(argv, config) ==
  IF argv = <<>> THEN config
  ELSE LET opt == Head(argv)
           next == CASE opt = "D" -> [config EXCEPT !.isDaemon = TRUE,
                                                    !.hasTestConsole = FALSE]
                     [] opt = "T" -> [config EXCEPT !.isDaemon = FALSE,
                                                    !.hasTestConsole = TRUE]
                     [] opt = "P" -> [config EXCEPT !.pidFile = "daemon.pid"]
                     [] OTHER -> config
       IN process_command_line(Tail(argv), next)

\* keys of the test console: quit, reload, any other
Keys == {"q", "R", "x"}

hostFrame == <<stop_requested, stop_cb, wpc, event_mutex, notified>>

HostParse ==
  /\ hpc = "main"
  /\ \E argv \in CommandLines :
       daemonConfig' = process_command_line(argv, daemonConfig)
  /\ hpc' = "setStart"
  /\ UNCHANGED <<daemonVars, pc, ret, cout, exitCode, m_IsInitialized, m_Pid,
                 m_PidFileName, procPid, pidFile, hostFrame, histVars, otherVars>>

HostSetStart == hpc = "setStart" /\ setStartFunction("f1") /\ hpc' = "setClose"

HostSetClose == hpc = "setClose" /\ setCloseFunction("f1") /\ hpc' = "setReload"

HostSetReload == hpc = "setReload" /\ setReloadFunction("f1") /\ hpc' = "setUser1"

HostSetUser1 == hpc = "setUser1" /\ setUser1Function("f1") /\ hpc' = "setUser2"

HostSetUser2 == hpc = "setUser2" /\ setUser2Function("f1") /\ hpc' = "callStart"

HostStartAll == hpc = "callStart" /\ startAllCall /\ hpc' = "startAll"

\* if (auto result = daemon.startAll(); result.has_value() && !result.value())
HostStartCheck ==
  /\ hpc = "startAll"
  /\ pc = "idle"
  /\ IF HostFatal(ret)
       THEN hpc' = "exited" /\ exitCode' = 1
       ELSE /\ hpc' = IF daemonConfig.isDaemon THEN "makeDaemon" ELSE "spawn"
            /\ UNCHANGED exitCode
  /\ UNCHANGED <<daemonVars, pc, ret, cout, daemonConfig, m_IsInitialized,
                 m_Pid, m_PidFileName, procPid, pidFile, hostFrame, histVars, otherVars>>

HostMakeDaemon ==
  /\ hpc = "makeDaemon"
  /\ makeDaemonCall(daemonConfig.pidFile)
  /\ hpc' = "daemonized"

HostMakeDaemonCheck ==
  /\ hpc = "daemonized"
  /\ IF HostFatal(ret)
       THEN hpc' = "exited" /\ exitCode' = 1
       ELSE hpc' = "spawn" /\ UNCHANGED exitCode
  /\ UNCHANGED <<daemonVars, pc, ret, cout, daemonConfig, m_IsInitialized,
                 m_Pid, m_PidFileName, procPid, pidFile, hostFrame, histVars, otherVars>>

\* taskAppContext = std::jthread(TaskAppContextFunc, ...)
HostSpawn ==
  /\ hpc = "spawn"
  /\ wpc' = "w_start"
  /\ hpc' = "while"
  /\ UNCHANGED <<daemonVars, pc, ret, cout, exitCode, daemonConfig,
                 m_IsInitialized, m_Pid, m_PidFileName, procPid, pidFile,
                 stop_requested, stop_cb, event_mutex, notified, histVars, otherVars>>

\* while (daemon.isRunning())
HostWhile == hpc = "while" /\ isRunningCall /\ hpc' = "while_test"

HostWhileTest ==
  /\ hpc = "while_test"
  /\ pc = "idle"
  /\ hpc' = IF ret = TRUE THEN "body" ELSE "request_stop"
  /\ UNCHANGED <<daemonVars, pc, ret, cout, exitCode, daemonConfig,
                 m_IsInitialized, m_Pid, m_PidFileName, procPid, pidFile,
                 hostFrame, histVars, otherVars>>

\* the loop body: handle_console() and setState, or sleep_for(1 s)
HostBody ==
  /\ hpc = "body"
  /\ hpc' = "while"
  /\ IF daemonConfig.hasTestConsole
       THEN \E key \in Keys :
              CASE key = "q" -> setStateCall("Stop")
                [] key = "R" -> setStateCall("Reload")
                [] OTHER -> UNCHANGED <<daemonVars, pc, ret, cout, envVars, histVars, otherVars>>
       ELSE UNCHANGED <<daemonVars, pc, ret, cout, envVars, histVars, otherVars>>

\* stop_src.request_stop() runs the registered stop callback
HostRequestStop ==
  /\ hpc = "request_stop"
  /\ stop_requested' = TRUE
  /\ IF stop_cb THEN notify_all ELSE UNCHANGED notified
  /\ hpc' = "lock"
  /\ UNCHANGED <<daemonVars, pc, ret, cout, exitCode, daemonConfig,
                 m_IsInitialized, m_Pid, m_PidFileName, procPid, pidFile,
                 stop_cb, wpc, event_mutex, histVars, otherVars>>

\* std::unique_lock lck(daemon_event.event_mutex);
HostLock ==
  /\ hpc = "lock"
  /\ event_mutex = "free"
  /\ event_mutex' = "main"
  /\ hpc' = "notify"
  /\ UNCHANGED <<daemonVars, pc, ret, cout, exitCode, daemonConfig,
                 m_IsInitialized, m_Pid, m_PidFileName, procPid, pidFile,
                 stop_requested, stop_cb, wpc, notified, histVars, otherVars>>

HostNotify ==
  /\ hpc = "notify"
  /\ notify_all
  /\ hpc' = "unlock"
  /\ UNCHANGED <<daemonVars, pc, ret, cout, exitCode, daemonConfig,
                 m_IsInitialized, m_Pid, m_PidFileName, procPid, pidFile,
                 stop_requested, stop_cb, wpc, event_mutex, histVars, otherVars>>

\* variant: the lock of main lives until the end of main, so that main
\* still holds the mutex when it joins
HostUnlock_AfterJoin ==
  /\ hpc = "unlock"
  /\ hpc' = "join"
  /\ UNCHANGED <<daemonVars, pc, ret, cout, exitCode, daemonConfig,
                 m_IsInitialized, m_Pid, m_PidFileName, procPid, pidFile,
                 stop_requested, stop_cb, wpc, event_mutex, notified, histVars,
                 otherVars>>

HostUnlock ==
  /\ hpc = "unlock"
  /\ event_mutex' = "free"
  /\ hpc' = "join"
  /\ UNCHANGED <<daemonVars, pc, ret, cout, exitCode, daemonConfig,
                 m_IsInitialized, m_Pid, m_PidFileName, procPid, pidFile,
                 stop_requested, stop_cb, wpc, notified, histVars, otherVars>>

\* variant: main goes on without waiting for the worker to end
HostJoin_NoWait ==
  /\ hpc = "join"
  /\ wpc' = "joined"
  /\ hpc' = "callClose"
  /\ UNCHANGED <<daemonVars, pc, ret, cout, exitCode, daemonConfig,
                 m_IsInitialized, m_Pid, m_PidFileName, procPid, pidFile,
                 stop_requested, stop_cb, event_mutex, notified, histVars, otherVars>>

\* taskAppContext.join();
HostJoin ==
  /\ hpc = "join"
  /\ wpc = "w_done"
  /\ wpc' = "joined"
  /\ hpc' = "callClose"
  /\ UNCHANGED <<daemonVars, pc, ret, cout, exitCode, daemonConfig,
                 m_IsInitialized, m_Pid, m_PidFileName, procPid, pidFile,
                 stop_requested, stop_cb, event_mutex, notified, histVars, otherVars>>

HostCloseAll == hpc = "callClose" /\ closeAllCall /\ hpc' = "closeAll"

\* if (auto result = daemon.closeAll(); result.has_value() && !result.value())
HostExit ==
  /\ hpc = "closeAll"
  /\ pc = "idle"
  /\ exitCode' = IF HostFatal(ret) THEN 1 ELSE 0
  /\ hpc' = "exited"
  /\ UNCHANGED <<daemonVars, pc, ret, cout, daemonConfig, m_IsInitialized,
                 m_Pid, m_PidFileName, procPid, pidFile, hostFrame, histVars, otherVars>>

main ==
  \/ HostParse
  \/ HostSetStart
  \/ HostSetClose
  \/ HostSetReload
  \/ HostSetUser1
  \/ HostSetUser2
  \/ HostStartAll
  \/ HostStartCheck
  \/ HostMakeDaemon
  \/ HostMakeDaemonCheck
  \/ HostSpawn
  \/ HostWhile
  \/ HostWhileTest
  \/ HostBody
  \/ HostRequestStop
  \/ HostLock
  \/ HostNotify
  \/ HostUnlock
  \/ HostJoin
  \/ HostCloseAll
  \/ HostExit

InitHost == Setup /\ hpc = "main" /\ g_watch = "none"

NextHost ==
  \/ Signal
  \/ main
  \/ TaskAppContextFunc
  \/ Steps

SpecHost == InitHost /\ [][NextHost]_vars

(***************************************************************************)
(* process_command_line of the hosts, one getopt_long call at a time       *)
(***************************************************************************)
\* longest command line
MaxArgs == 2

\* the words of a command line: options of the option string
\* "h?vDTP:S:x:L:", the long option --help, -F that is not in the option
\* string, an empty word and a word that is no option
ArgWords == {"-D", "-T", "-F", "-P", "-L", "-h", "-v", "--help", "", "f"}

\* the command lines argv[1..] of at most n words
Lines(n) == UNION {[1..k -> ArgWords] : k \in 0..n}

\* the character getopt_long returns for an option word
Letter(w) ==
  CASE w = "-D" -> "D"
    [] w = "-T" -> "T"
    [] w = "-P" -> "P"
    [] w = "-L" -> "L"
    [] w = "-h" -> "h"
    [] w = "-v" -> "v"

\* getopt_long(argc, argv, "h?vDTP:S:x:L:", long_options, ...) on the words
\* not scanned yet: words that are no options are passed over; --help has
\* val 0; P and L take the next word, whatever it is, as optarg; a word
\* that is not in the option string, and an option without its argument,
\* give '?'; -1 (EOF) at the end
RECURSIVE getopt_long(_)
getopt_long(words) ==
  IF words = <<>>
    THEN [opt |-> "EOF", optarg |-> "", rest |-> <<>>, word |-> "none",
          why |-> "end"]
  ELSE LET w == Head(words)
       IN  CASE w \in {"", "f"} -> getopt_long(Tail(words))
             [] w = "--help" ->
                  [opt |-> "0", optarg |-> "", rest |-> Tail(words),
                   word |-> w, why |-> "ok"]
             [] w \in {"-D", "-T", "-h", "-v"} ->
                  [opt |-> Letter(w), optarg |-> "", rest |-> Tail(words),
                   word |-> w, why |-> "ok"]
             [] w \in {"-P", "-L"} ->
                  IF Len(words) >= 2
                    THEN [opt |-> Letter(w), optarg |-> words[2],
                          rest |-> Tail(Tail(words)), word |-> w,
                          why |-> IF words[2] = "" THEN "empty" ELSE "ok"]
                    ELSE [opt |-> "?", optarg |-> "", rest |-> <<>>,
                          word |-> w, why |-> "missing"]
             [] OTHER ->
                  [opt |-> "?", optarg |-> "", rest |-> Tail(words),
                   word |-> w, why |-> "unknown"]

\* what is wrong with a command line: an option getopt_long does not know,
\* an option without its argument, an option with an empty argument
Defects == {"unknown", "missing", "empty"}

\* the history of the parse after getopt_long returned g
CmdSeen(g) ==
  [word |-> g.word, why |-> g.why,
   bad |-> IF g_cmd.bad = "none" /\ g.why \in Defects THEN g.why
           ELSE g_cmd.bad]

\* what a step of process_command_line leaves alone
cmdFrame == <<daemonVars, pc, ret, cout, m_IsInitialized, m_Pid, m_PidFileName,
              procPid, pidFile, stop_requested, stop_cb, wpc, event_mutex,
              notified, histVars, instVars, taskVars, appVars>>

\* daemon_app: one iteration of the for (;;) of process_command_line.
\* display_help(argv[0]) is called without errorOption in every place, so
\* it returns; handle_option_argument calls it for an empty argument and
\* returns too
AppSwitch ==
  /\ hpc = "a_getopt"
  /\ LET g == getopt_long(cmdLine)
     IN  /\ cmdLine' = g.rest
         /\ g_cmd' = CmdSeen(g)
         /\ CASE g.opt = "EOF" ->
                   hpc' = "setStart" /\ UNCHANGED <<daemonConfig, exitCode>>
              [] g.opt \in {"h", "?", "v"} ->
                   hpc' = "exited" /\ exitCode' = 0 /\ UNCHANGED daemonConfig
              [] g.opt = "D" ->
                   /\ daemonConfig' = [daemonConfig EXCEPT !.isDaemon = TRUE,
                                                       !.hasTestConsole = FALSE]
                   /\ UNCHANGED <<hpc, exitCode>>
              [] g.opt = "T" ->
                   /\ daemonConfig' = [daemonConfig EXCEPT !.isDaemon = FALSE,
                                                       !.hasTestConsole = TRUE]
                   /\ UNCHANGED <<hpc, exitCode>>
              [] g.opt = "P" ->
                   /\ daemonConfig' = [daemonConfig EXCEPT !.pidFile = g.optarg]
                   /\ UNCHANGED <<hpc, exitCode>>
              [] OTHER -> UNCHANGED <<hpc, exitCode, daemonConfig>>
  /\ UNCHANGED cmdFrame

\* daemon_simple: one iteration of the for (;;) of process_command_line.
\* The switch has case 'F' and no case 'T'; display_help(argv[0], var) with
\* an error option calls exit(EXIT_FAILURE)
SimpleSwitch ==
  /\ hpc = "s_getopt"
  /\ LET g == getopt_long(cmdLine)
     IN  /\ cmdLine' = g.rest
         /\ g_cmd' = CmdSeen(g)
         /\ CASE g.opt = "EOF" ->
                   hpc' = "s_setStart" /\ UNCHANGED <<daemonConfig, exitCode>>
              [] g.opt = "0" -> UNCHANGED <<hpc, exitCode, daemonConfig>>
              [] g.opt \in {"h", "?", "v"} ->
                   hpc' = "exited" /\ exitCode' = 0 /\ UNCHANGED daemonConfig
              [] g.opt = "D" ->
                   /\ daemonConfig' = [daemonConfig EXCEPT !.isDaemon = TRUE,
                                                       !.hasTestConsole = FALSE]
                   /\ UNCHANGED <<hpc, exitCode>>
              [] g.opt = "F" ->
                   /\ daemonConfig' = [daemonConfig EXCEPT !.isDaemon = FALSE,
                                                       !.hasTestConsole = TRUE]
                   /\ UNCHANGED <<hpc, exitCode>>
              [] g.opt = "P" ->
                   IF g.optarg # ""
                     THEN /\ daemonConfig' =
                               [daemonConfig EXCEPT !.pidFile = g.optarg]
                          /\ UNCHANGED <<hpc, exitCode>>
                     ELSE /\ hpc' = "exited"
                          /\ exitCode' = 1
                          /\ UNCHANGED daemonConfig
              [] OTHER ->
                   hpc' = "exited" /\ exitCode' = 1 /\ UNCHANGED daemonConfig
  /\ UNCHANGED cmdFrame

\* daemon_simple main after process_command_line: the three setters
SimpleSetStart ==
  hpc = "s_setStart" /\ setStartFunction("f1") /\ hpc' = "s_setClose"

SimpleSetClose ==
  hpc = "s_setClose" /\ setCloseFunction("f1") /\ hpc' = "s_setReload"

SimpleSetReload ==
  hpc = "s_setReload" /\ setReloadFunction("f1") /\ hpc' = "s_callStart"

\* if (auto result = daemon.startAll(); ...
SimpleStartAll == hpc = "s_callStart" /\ startAllCall /\ hpc' = "s_startAll"

\* main was entered with a command line of at most MaxArgs words
InitAppCmd ==
  /\ Members /\ Constructed /\ TaskIdle /\ AppIdle
  /\ cmdLine \in Lines(MaxArgs)
  /\ g_cmd = NoCmd
  /\ hpc = "a_getopt"
  /\ g_watch = "none"

NextAppCmd ==
  \/ AppSwitch
  \/ HostSetStart
  \/ HostSetClose
  \/ HostSetReload
  \/ HostSetUser1
  \/ HostSetUser2
  \/ HostStartAll
  \/ startAllReturn

SpecAppCmd == InitAppCmd /\ [][NextAppCmd]_vars

InitSimpleCmd ==
  /\ Members /\ Constructed /\ TaskIdle /\ AppIdle
  /\ cmdLine \in Lines(MaxArgs)
  /\ g_cmd = NoCmd
  /\ hpc = "s_getopt"
  /\ g_watch = "none"

NextSimpleCmd ==
  \/ SimpleSwitch
  \/ SimpleSetStart
  \/ SimpleSetClose
  \/ SimpleSetReload
  \/ SimpleStartAll
  \/ startAllReturn

SpecSimpleCmd == InitSimpleCmd /\ [][NextSimpleCmd]_vars

(***************************************************************************)
(* TaskController: runTask on its thread, and the owner of the controller, *)
(* of the stop source and of the TaskEvent                                 *)
(***************************************************************************)
\* the durations task.start() is given (in units of the duration type)
defDuration == 3
zeroDuration == 1

\* durations a serveFunction may return
StepResults == {-1, 0, 2}

\* what a step of the task or of its owner leaves alone
taskFrame == <<daemonVars, pc, ret, cout, exitCode, daemonConfig,
               m_IsInitialized, m_Pid, m_PidFileName, procPid, pidFile,
               histVars, instVars, cmdVars, appVars>>

\* m_taskThread.joinable(): the handle holds a thread that was started and
\* not joined, whether or not runTask has returned
joinable == wpc \notin {"unstarted", "joined"}

\* the owner calls task.start(...) at most MaxStarts times
MaxStarts == 2

\* the owner calls task.stop() at most MaxStops times
MaxStops == 2

\* task.start(...): m_taskThread = std::move(std::thread(runTask, ...)).
\* The new thread is constructed, and runs, before the move assignment;
\* std::thread::operator=(thread&&) calls std::terminate() when the handle
\* it assigns to is joinable, which ends the process and its threads.
TaskStart ==
  /\ hpc = "t_main"
  /\ g_task.starts < MaxStarts
  /\ IF joinable
       THEN /\ hpc' = "t_aborted"
            /\ wpc' = "terminated"
            /\ g_task' = [g_task EXCEPT !.starts = @ + 1, !.live = @ + 1]
       ELSE /\ wpc' = "r_init"
            /\ g_task' = [g_task EXCEPT !.starts = @ + 1, !.live = @ + 1,
                                        !.hostNotified = FALSE,
                                        !.served = 0, !.after = 0,
                                        !.observed = FALSE]
            /\ UNCHANGED hpc
  /\ UNCHANGED <<taskFrame, stop_requested, stop_cb, event_mutex, notified,
                 sooner>>

\* stop_src.request_stop(): sets the stop state and runs the callbacks that
\* are registered at this moment
TaskRequestStop ==
  /\ hpc = "t_main"
  /\ joinable
  /\ ~stop_requested
  /\ stop_requested' = TRUE
  /\ IF stop_cb
       THEN notify_all /\ g_task' = [g_task EXCEPT !.observer = @ + 1]
       ELSE UNCHANGED <<notified, g_task>>
  /\ UNCHANGED <<taskFrame, hpc, stop_cb, wpc, event_mutex, sooner>>

\* the owner of the TaskEvent notifies event_condition itself
TaskNotify ==
  /\ hpc = "t_main"
  /\ joinable
  /\ stop_requested
  /\ ~g_task.hostNotified
  /\ notify_all
  /\ g_task' = [g_task EXCEPT !.hostNotified = TRUE]
  /\ UNCHANGED <<taskFrame, hpc, stop_requested, stop_cb, wpc, event_mutex,
                 sooner>>

\* variant: stop() calls join() without asking joinable()
TaskStop_AlwaysJoins ==
  /\ hpc = "t_main"
  /\ g_task.stops < MaxStops
  /\ hpc' = "t_joining"
  /\ g_task' = [g_task EXCEPT !.stops = @ + 1]
  /\ UNCHANGED <<taskFrame, stop_requested, stop_cb, wpc, event_mutex, notified,
                 sooner>>

\* task.stop(): if (m_taskThread.joinable()) m_taskThread.join() begins;
\* without a joinable thread stop() returns at once
TaskStop ==
  /\ hpc = "t_main"
  /\ g_task.stops < MaxStops
  /\ IF joinable
       THEN /\ hpc' = "t_joining"
            /\ g_task' = [g_task EXCEPT !.stops = @ + 1]
       ELSE /\ g_task' = [g_task EXCEPT !.stops = @ + 1,
                                        !.lastStop = "immediate"]
            /\ UNCHANGED hpc
  /\ UNCHANGED <<taskFrame, stop_requested, stop_cb, wpc, event_mutex, notified,
                 sooner>>

\* variant: stop() gives the thread up instead of waiting for runTask to
\* return
TaskJoin_Detaches ==
  /\ hpc = "t_joining"
  /\ wpc' = "joined"
  /\ hpc' = "t_main"
  /\ g_task' = [g_task EXCEPT !.live = @ - 1, !.lastStop = "joined"]
  /\ UNCHANGED <<taskFrame, stop_requested, stop_cb, event_mutex, notified,
                 sooner>>

\* join() returns when runTask has returned
TaskJoin ==
  /\ hpc = "t_joining"
  /\ wpc = "r_done"
  /\ wpc' = "joined"
  /\ hpc' = "t_main"
  /\ g_task' = [g_task EXCEPT !.live = @ - 1, !.lastStop = "joined"]
  /\ UNCHANGED <<taskFrame, stop_requested, stop_cb, event_mutex, notified,
                 sooner>>

TaskOwner ==
  \/ TaskStart
  \/ TaskRequestStop
  \/ TaskNotify
  \/ TaskStop
  \/ TaskJoin

\* auto sooner{defDuration};
RunInit ==
  /\ wpc = "r_init"
  /\ sooner' = defDuration
  /\ wpc' = "r_register"
  /\ UNCHANGED <<taskFrame, hpc, stop_requested, stop_cb, event_mutex, notified,
                 g_task>>

\* registerStopCallback: the constructor of the temporary std::stop_callback
\* registers the callback, or runs it at once when the stop was requested
RunRegister ==
  /\ wpc = "r_register"
  /\ IF stop_requested
       THEN /\ notify_all
            /\ g_task' = [g_task EXCEPT !.observer = @ + 1]
            /\ UNCHANGED stop_cb
       ELSE /\ stop_cb' = TRUE
            /\ UNCHANGED <<notified, g_task>>
  /\ wpc' = "r_registered"
  /\ UNCHANGED <<taskFrame, hpc, stop_requested, event_mutex, sooner>>

\* variant: a while loop, which tests the token before the first call of
\* serveFunction
RunDeregister_TestsFirst ==
  /\ wpc = "r_registered"
  /\ stop_cb' = FALSE
  /\ wpc' = "r_check"
  /\ UNCHANGED <<taskFrame, hpc, stop_requested, event_mutex, notified,
                 taskVars>>

\* registerStopCallback: the temporary is destroyed at the end of the
\* statement, which takes the callback off the token
RunDeregister ==
  /\ wpc = "r_registered"
  /\ stop_cb' = FALSE
  /\ wpc' = "r_serve"
  /\ UNCHANGED <<taskFrame, hpc, stop_requested, event_mutex, notified,
                 taskVars>>

\* sooner = serveFunction(sooner); if (sooner.count() > 0)
RunServe ==
  /\ wpc = "r_serve"
  /\ \E r \in StepResults :
       /\ sooner' = r
       /\ g_task' = [g_task EXCEPT
                     !.arg = sooner, !.res = r, !.timeout = 0, !.wake = "none",
                     !.served = 1,
                     !.after = IF stop_requested THEN Min(@ + 1, 2) ELSE @]
       /\ wpc' = IF r > 0 THEN "r_lock" ELSE "r_zero"
  /\ UNCHANGED <<taskFrame, hpc, stop_requested, stop_cb, event_mutex, notified>>

\* std::unique_lock lck(event.event_mutex);
RunLock ==
  /\ wpc = "r_lock"
  /\ event_mutex = "free"
  /\ event_mutex' = "worker"
  /\ wpc' = "r_locked"
  /\ UNCHANGED <<taskFrame, hpc, stop_requested, stop_cb, notified, taskVars>>

\* event.event_condition.wait_for(lck, sooner) releases the mutex and blocks
RunWait ==
  /\ wpc = "r_locked"
  /\ event_mutex' = "free"
  /\ notified' = FALSE
  /\ g_task' = [g_task EXCEPT !.timeout = sooner]
  /\ wpc' = "r_waiting"
  /\ UNCHANGED <<taskFrame, hpc, stop_requested, stop_cb, sooner>>

\* wait_for ends because the condition variable was notified
RunWakeNotified ==
  /\ wpc = "r_waiting"
  /\ notified
  /\ event_mutex = "free"
  /\ event_mutex' = "worker"
  /\ g_task' = [g_task EXCEPT !.wake = "notified"]
  /\ wpc' = "r_woken"
  /\ UNCHANGED <<taskFrame, hpc, stop_requested, stop_cb, notified, sooner>>

\* wait_for ends without a notification: the time is over, or the wake-up
\* is a spurious one
RunWakeUnnotified ==
  /\ wpc = "r_waiting"
  /\ ~notified
  /\ event_mutex = "free"
  /\ event_mutex' = "worker"
  /\ \E reason \in {"timeout", "spurious"} :
       g_task' = [g_task EXCEPT !.wake = reason]
  /\ wpc' = "r_woken"
  /\ UNCHANGED <<taskFrame, hpc, stop_requested, stop_cb, notified, sooner>>

\* end of the block of the lock
RunUnlock ==
  /\ wpc = "r_woken"
  /\ event_mutex' = "free"
  /\ wpc' = "r_check"
  /\ UNCHANGED <<taskFrame, hpc, stop_requested, stop_cb, notified, taskVars>>

\* variant: the else branch leaves sooner as serveFunction returned it
RunZero_KeepsResult ==
  /\ wpc = "r_zero"
  /\ wpc' = "r_check"
  /\ UNCHANGED <<taskFrame, hpc, stop_requested, stop_cb, event_mutex, notified,
                 taskVars>>

\* else sooner = zeroDuration;
RunZero ==
  /\ wpc = "r_zero"
  /\ sooner' = zeroDuration
  /\ wpc' = "r_check"
  /\ UNCHANGED <<taskFrame, hpc, stop_requested, stop_cb, event_mutex, notified,
                 g_task>>

\* variant: the test of the token counts only after a wait that a
\* notification has ended
RunCheck_EdgeTriggered ==
  /\ wpc = "r_check"
  /\ wpc' = IF stop_requested /\ g_task.wake = "notified"
            THEN "r_done" ELSE "r_serve"
  /\ UNCHANGED <<taskFrame, hpc, stop_requested, stop_cb, event_mutex, notified,
                 taskVars>>

\* if (token.stop_requested()) break;
RunCheck ==
  /\ wpc = "r_check"
  /\ wpc' = IF stop_requested THEN "r_done" ELSE "r_serve"
  /\ g_task' = [g_task EXCEPT !.observed = stop_requested]
  /\ UNCHANGED <<taskFrame, hpc, stop_requested, stop_cb, event_mutex, notified,
                 sooner>>

runTask ==
  \/ RunInit
  \/ RunRegister
  \/ RunDeregister
  \/ RunServe
  \/ RunLock
  \/ RunWait
  \/ RunWakeNotified
  \/ RunWakeUnnotified
  \/ RunUnlock
  \/ RunZero
  \/ RunCheck

InitTask == Setup /\ hpc = "t_main" /\ g_watch = "none"

NextTask ==
  \/ TaskOwner
  \/ runTask

SpecTask == InitTask /\ [][NextTask]_vars

\* the scheduler lets a thread that can take a step take it: serveFunction
\* returns, a wait that is not notified times out, join() returns once the
\* thread has ended
SpecTaskLive ==
  /\ InitTask
  /\ [][NextTask]_vars
  /\ WF_vars(runTask)
  /\ WF_vars(TaskJoin)

(***************************************************************************)
(* TaskApp: start(), stop(), the destructor and the threads of             *)
(* taskAppContextFunc                                                      *)
(***************************************************************************)
\* what a step of TaskApp or of its threads leaves alone
appFrame == <<daemonVars, pc, ret, cout, exitCode, daemonConfig,
              m_IsInitialized, m_Pid, m_PidFileName, procPid, pidFile,
              stop_requested, stop_cb, wpc, event_mutex, notified, histVars,
              instVars, taskVars, cmdVars>>

\* start(), first statement: stopSource = std::stop_source(); the member
\* now refers to a new stop state without a request
AppStartSource ==
  /\ hpc = "app_main"
  /\ g_app.starts < MaxAppStarts
  /\ stopSource' = g_app.starts + 1
  /\ g_app' = [g_app EXCEPT !.starts = @ + 1]
  /\ hpc' = "app_start"
  /\ UNCHANGED <<appFrame, stopState, taskAppContextThread, threadPos,
                 threadToken>>

\* start(), second statement: taskAppContextThread = std::jthread(...).
\* The new thread is constructed, and runs, before the move assignment.
\* std::jthread::operator=(jthread&&) on a joinable handle calls
\* request_stop(), which sets the stop state of the handle's own stop
\* source (taskAppContextFunc takes no std::stop_token, so no thread reads
\* it), and then join().
AppStartThread ==
  /\ hpc = "app_start"
  /\ threadPos' = [threadPos EXCEPT ![g_app.starts] = "entry"]
  /\ IF taskAppContextThread = 0
       THEN /\ taskAppContextThread' = g_app.starts
            /\ hpc' = "app_main"
       ELSE /\ hpc' = "app_assign"
            /\ UNCHANGED taskAppContextThread
  /\ UNCHANGED <<appFrame, stopSource, stopState, threadToken, g_app>>

\* stop(): stopSource.request_stop(); if (taskAppContextThread.joinable())
\* taskAppContextThread.join() begins
stop(dtor) ==
  /\ hpc = "app_main"
  /\ stopState' = stopState \cup {stopSource}
  /\ g_app' = [g_app EXCEPT !.stops = @ + 1, !.dtor = dtor]
  /\ hpc' = IF taskAppContextThread # 0 THEN "app_join"
            ELSE IF dtor THEN "app_destroyed" ELSE "app_main"
  /\ UNCHANGED <<appFrame, stopSource, taskAppContextThread, threadPos,
                 threadToken>>

AppStop == g_app.stops < MaxAppStops /\ stop(FALSE)

\* ~TaskApp() { stop(); }
AppDestroy == stop(TRUE)

\* std::jthread::join(), called by stop() or by the move assignment of
\* start(), returns when the thread the handle holds has ended; the move
\* assignment then gives the handle the new thread
AppJoin ==
  /\ hpc \in {"app_join", "app_assign"}
  /\ threadPos[taskAppContextThread] = "done"
  /\ threadPos' = [threadPos EXCEPT ![taskAppContextThread] = "joined"]
  /\ IF hpc = "app_assign"
       THEN /\ taskAppContextThread' = g_app.starts
            /\ hpc' = "app_main"
       ELSE /\ taskAppContextThread' = 0
            /\ hpc' = IF g_app.dtor THEN "app_destroyed" ELSE "app_main"
  /\ UNCHANGED <<appFrame, stopSource, stopState, threadToken, g_app>>

TaskApp ==
  \/ AppStartSource
  \/ AppStartThread
  \/ AppStop
  \/ AppDestroy
  \/ AppJoin

\* taskAppContextFunc: stopSource.get_token() reads the member when the
\* thread gets to run
AppEntry(k) ==
  /\ threadPos[k] = "entry"
  /\ threadToken' = [threadToken EXCEPT ![k] = stopSource]
  /\ threadPos' = [threadPos EXCEPT ![k] = "serve"]
  /\ UNCHANGED <<appFrame, hpc, stopSource, stopState, taskAppContextThread,
                 g_app>>

\* TaskAppContextFunc: the step and the timed wait of one iteration
AppServe(k) ==
  /\ threadPos[k] = "serve"
  /\ threadPos' = [threadPos EXCEPT ![k] = "check"]
  /\ UNCHANGED <<appFrame, hpc, stopSource, stopState, taskAppContextThread,
                 threadToken, g_app>>

\* TaskAppContextFunc: if (token.stop_requested()) break;
AppCheck(k) ==
  /\ threadPos[k] = "check"
  /\ threadPos' = [threadPos EXCEPT ![k] =
                     IF threadToken[k] \in stopState THEN "done" ELSE "serve"]
  /\ UNCHANGED <<appFrame, hpc, stopSource, stopState, taskAppContextThread,
                 threadToken, g_app>>

taskAppContextFunc ==
  \E k \in AppThreads : AppEntry(k) \/ AppServe(k) \/ AppCheck(k)

InitApp == Setup /\ hpc = "app_main" /\ g_watch = "none"

NextApp ==
  \/ TaskApp
  \/ taskAppContextFunc

SpecApp == InitApp /\ [][NextApp]_vars

(***************************************************************************)
(* Properties                                                              *)
(***************************************************************************)
\* isRunning() has returned and no signal was delivered since it was called
QuietPoll == pc = "idle" /\ g_op = "isRunning" /\ ~g_sigSince

\* the association the claims state: Reload -> reload callback, User1 ->
\* user1 callback, User2 -> user2 callback, as <<slot, registered closure>>
Associated(t) ==
  CASE t = "Reload" -> <<"reload", m_HandlerReload>>
    [] t = "User1"  -> <<"user1", m_HandlerUser1>>
    [] t = "User2"  -> <<"user2", m_HandlerUser2>>

\* C1: a transient state set by a signal, delivered at any moment, is
\* consumed by the next isRunning(): once a call of isRunning() that began
\* after the delivery has returned (no later signal, no state write by the
\* caller in between), the callback associated with the signal has been
\* invoked exactly once since the delivery.
C1_ConsumedExactlyOnce ==
  (pc = "idle" /\ g_pend.polls = 1 /\ Associated(g_pend.st)[2] # Empty) =>
    g_pend.cb = 1

\* C2: isRunning() called on a transient state T, no signal delivered during
\* the call: at return the state is Running when the callback of T is absent
\* or returned Succeeded or Unspecified, and Stop when it returned Failed;
\* the call returns true exactly when the state at return is Running.
C2_TransientOutcome ==
  (QuietPoll /\ g_atCall \in Transient) =>
    /\ Associated(g_atCall)[2] = Empty => g_cbOut = "none" /\ m_State = "Running"
    /\ Associated(g_atCall)[2] # Empty => g_cbOut \in Outcome
    /\ g_cbOut \in {"Succeeded", "Unspecified"} => m_State = "Running"
    /\ g_cbOut = "Failed" => m_State = "Stop"
    /\ ret \in BOOLEAN
    /\ ret = TRUE <=> m_State = "Running"

C2_Witness ==
  /\ QuietPoll
  /\ g_atCall = "User1"
  /\ g_cbOut = "Unspecified"
  /\ m_State = "Running"
  /\ ret = TRUE

\* C3: one call of isRunning() invokes at most one callback and never the
\* start or close callback; called on a transient state T with the callback
\* of T registered (and no signal during the call) it invokes exactly that
\* callback, exactly once, and no other.
C3_ExactlyTheAssociatedCallback ==
  g_op = "isRunning" =>
    /\ Len(g_cbs) <= 1
    /\ \A i \in 1..Len(g_cbs) : g_cbs[i][1] \in {"reload", "user1", "user2"}
    /\ (QuietPoll /\ g_atCall \in Transient) =>
         g_cbs = IF Associated(g_atCall)[2] = Empty THEN <<>>
                 ELSE <<Associated(g_atCall)>>
    /\ (QuietPoll /\ g_atCall \notin Transient) => g_cbs = <<>>

C3_Witness ==
  /\ QuietPoll
  /\ g_atCall = "User2"
  /\ g_cbs = << <<"user2", "f1">> >>
  /\ m_HandlerBeforeToStart # Empty
  /\ m_HandlerBeforeToExit # Empty
  /\ m_HandlerReload # Empty
  /\ m_HandlerUser1 # Empty

\* C4: Stop is terminal for the run: once the state has been Stop after
\* startAll(), it does not return to Running, and the isRunning() of the
\* poll loop returns false, whatever signals follow.
C4_StopIsTerminal ==
  g_wasStop =>
    /\ m_State # "Running"
    /\ (hpc = "while_test" /\ pc = "idle") => ret = FALSE

AfterInterval ==
  /\ QuietPoll
  /\ g_between.closed
  /\ g_between.sigs # <<>>
  /\ g_between.sigs[Len(g_between.sigs)] # kOtherSignal

\* the last signal of the interval
LastSig == g_between.sigs[Len(g_between.sigs)]

\* C5 as stated: the second call is determined by the last signal of the
\* interval alone: after reload/user1/user2 the state is Running and that
\* signal's callback was invoked once (and no other); after
\* interrupt/terminate the state is Stop and isRunning() returned false.
C5_LastSignalWins_AsStated ==
  AfterInterval =>
    /\ LastSig = kReloadSignal =>
         /\ m_State = "Running"
         /\ g_cbs = IF m_HandlerReload = Empty THEN <<>>
                    ELSE << <<"reload", m_HandlerReload>> >>
    /\ LastSig = kUserSignal1 =>
         /\ m_State = "Running"
         /\ g_cbs = IF m_HandlerUser1 = Empty THEN <<>>
                    ELSE << <<"user1", m_HandlerUser1>> >>
    /\ LastSig = kUserSignal2 =>
         /\ m_State = "Running"
         /\ g_cbs = IF m_HandlerUser2 = Empty THEN <<>>
                    ELSE << <<"user2", m_HandlerUser2>> >>
    /\ LastSig \in {kExitSignal, kTerminateSignal} =>
         m_State = "Stop" /\ ret = FALSE /\ g_cbs = <<>>

\* C5 amended: as stated, except that after reload/user1/user2 the state is
\* Stop, and isRunning() returns false, when the callback returned Failed.
C5_LastSignalWins ==
  AfterInterval =>
    /\ LastSig = kReloadSignal =>
         /\ m_State = IF g_cbOut = "Failed" THEN "Stop" ELSE "Running"
         /\ g_cbs = IF m_HandlerReload = Empty THEN <<>>
                    ELSE << <<"reload", m_HandlerReload>> >>
    /\ LastSig = kUserSignal1 =>
         /\ m_State = IF g_cbOut = "Failed" THEN "Stop" ELSE "Running"
         /\ g_cbs = IF m_HandlerUser1 = Empty THEN <<>>
                    ELSE << <<"user1", m_HandlerUser1>> >>
    /\ LastSig = kUserSignal2 =>
         /\ m_State = IF g_cbOut = "Failed" THEN "Stop" ELSE "Running"
         /\ g_cbs = IF m_HandlerUser2 = Empty THEN <<>>
                    ELSE << <<"user2", m_HandlerUser2>> >>
    /\ LastSig \in {kExitSignal, kTerminateSignal} =>
         m_State = "Stop" /\ g_cbs = <<>>
    /\ ret = (m_State = "Running")

C5_Witness ==
  /\ AfterInterval
  /\ g_between.sigs = <<kTerminateSignal, kUserSignal1>>
  /\ g_cbs = << <<"user1", "f1">> >>
  /\ m_HandlerReload # Empty
  /\ m_State = "Running"

\* C7: the start callback is invoked only inside startAll(), the close
\* callback only inside closeAll(), the reload/user1/user2 callbacks only
\* inside isRunning(); a step of the signal handler invokes no callback and
\* does nothing but write the state.
C7_HandlerOnlyWritesState ==
  [][/\ g_cbs' # g_cbs /\ g_cbs' # <<>> =>
          LET slot == g_cbs'[Len(g_cbs')][1] IN
            /\ slot = "start" => g_op' = "startAll"
            /\ slot = "close" => g_op' = "closeAll"
            /\ slot \in {"reload", "user1", "user2"} => g_op' = "isRunning"
     /\ Signal => UNCHANGED <<handlerVars, pc, ret, cout, g_cbs>>]_vars

\* startAll() has returned and no signal was delivered since it was called
QuietStart == pc = "idle" /\ g_op = "startAll" /\ ~g_sigSince

C9_StartAllTwice ==
  (QuietStart /\ g_startRow.n >= 1) =>
    /\ m_State = "Running"
    /\ g_startRow.cb = IF m_HandlerBeforeToStart = Empty THEN 0 ELSE g_startRow.n

C9_Witness ==
  /\ QuietStart
  /\ g_startRow = [n |-> 2, cb |-> 2]
  /\ m_State = "Running"

\* closeAll() has returned and no signal was delivered since it was called
QuietClose == pc = "idle" /\ g_op = "closeAll" /\ ~g_sigSince

QuietReload == pc = "idle" /\ g_op = "reloadAll" /\ ~g_sigSince

C12_NoSideEffect ==
  (g_op = "isRunning" /\ ~g_sigSince /\ g_atCall \in {"Start", "Running", "Stop"}) =>
    /\ m_State = g_atCall
    /\ g_cbs = <<>>
    /\ g_cbOut = "none"
    /\ pc = "idle" => ret = (g_atCall = "Running")

C12_Witness ==
  /\ QuietPoll
  /\ g_atCall = "Stop"
  /\ m_State = "Stop"
  /\ ret = FALSE
  /\ m_HandlerReload # Empty
  /\ m_HandlerUser1 # Empty
  /\ m_HandlerUser2 # Empty
  /\ m_HandlerBeforeToExit # Empty

\* C13: for every transient state, isRunning() (no signal during the call)
\* ends in the same state, Running, and returns the same value, true, whether
\* the callback returned Unspecified, returned Succeeded or is not
\* registered; only a callback that returned Failed ends in Stop and false.
C13_UnspecifiedLikeSucceeded ==
  (QuietPoll /\ g_atCall \in Transient) =>
    /\ g_cbOut = "none" <=> Associated(g_atCall)[2] = Empty
    /\ g_cbOut \in {"none", "Succeeded", "Unspecified"} =>
         m_State = "Running" /\ ret = TRUE
    /\ g_cbOut = "Failed" => m_State = "Stop" /\ ret = FALSE
    /\ g_cbOut \in Outcome \cup {"none"}

C13_Witness ==
  /\ QuietPoll
  /\ g_atCall = "Reload"
  /\ g_cbOut = "Unspecified"
  /\ m_State = "Running"
  /\ ret = TRUE
  /\ m_HandlerReload # Empty

\* makeDaemon() has returned and was the last call
AfterMake == pc = "idle" /\ g_op = "makeDaemon"

\* C14: every call of makeDaemon() after the first returns failure and
\* neither calls daemon() nor writes the PID file nor touches what the first
\* call recorded, whether the first call succeeded or failed; over any
\* sequence of calls daemon() is called at most once.
C14_MakeDaemonOneShot ==
  [][/\ g_make'.detach <= 1
     /\ (g_make.calls >= 1 /\ g_make'.calls = g_make.calls + 1) =>
          /\ ret' = "Failed"
          /\ g_make'.detach = g_make.detach
          /\ g_make'.writes = g_make.writes
          /\ UNCHANGED <<m_IsInitialized, m_Pid, m_PidFileName, procPid,
                         pidFile>>]_vars

C14_Witness ==
  /\ AfterMake
  /\ g_make.calls = 2
  /\ g_make.detach = 1
  /\ g_make.detached = "no"
  /\ ret = "Failed"
  /\ pidFile = <<>>
  /\ m_PidFileName = "daemon.pid"

C16_PidFile ==
  /\ g_make.writes <= 1
  /\ g_make.writes = 1 <=> pidFile # <<>>
  /\ pidFile # <<>> =>
       /\ g_make.detached = "yes"
       /\ m_PidFileName # ""
       /\ procPid = DetachedPid
       /\ m_Pid = procPid
       /\ pidFile = <<"4", "0", "8">>
  /\ (g_make.detached = "no" \/ (m_IsInitialized /\ m_PidFileName = "")) =>
       pidFile = <<>>

C16_Witness ==
  /\ AfterMake
  /\ g_make.calls = 3
  /\ g_make.writes = 1
  /\ pidFile = <<"4", "0", "8">>
  /\ m_Pid = DetachedPid
  /\ ret = "Failed"

\* the signals of a sequence of signal() calls
Registered(q) == {q[k] : k \in 1..Len(q)}

\* C17: however the first calls of Daemon::instance() by several threads
\* interleave, the Daemon object is constructed once and signal() is called
\* once for each of the five signals; a thread gets the instance only when
\* it is constructed, and a step of instance() taken once the object is
\* constructed registers no handler, constructs nothing and leaves the state
\* as it is.
C17_OneInstance ==
  [][/\ g_ctor' <= 1
     /\ Len(installed') = Cardinality(Registered(installed'))
     /\ guard' = "done" =>
          /\ g_ctor' = 1
          /\ Registered(installed') = {kExitSignal, kTerminateSignal,
                                       kReloadSignal, kUserSignal1,
                                       kUserSignal2}
     /\ \A t \in Threads : ipc'[t] = "return" => guard' = "done"
     /\ (guard = "done" /\ ipc' # ipc) =>
          UNCHANGED <<m_State, installed, g_ctor, guard>>]_vars

C17_Witness ==
  /\ guard = "done"
  /\ g_ctor = 1
  /\ Len(installed) = 5
  /\ ipc["t1"] = "blocked"
  /\ ipc["t2"] = "return"
  /\ ipc["t3"] = "blocked"
  /\ icalls["t2"] = 2
  /\ m_State = "User1"

\* positions of runTask inside its loop
RunLoop == {"r_serve", "r_lock", "r_locked", "r_waiting", "r_woken", "r_zero",
            "r_check"}

\* C18: runTask is the loop of the specification: sooner is defDuration
\* until the first call of serveFunction; every iteration calls
\* serveFunction with sooner and stores the result in sooner; a positive
\* result is followed by one wait on the event with the result as timeout,
\* any other result by no wait and sooner = zeroDuration; every iteration
\* then comes to the test of the token, which leaves the loop exactly when
\* a stop was requested, and the loop is left nowhere else (but by the end
\* of the process).
C18_WorkerLoop ==
  [][\/ wpc' = "terminated"
     \/ /\ wpc' \in {"r_register", "r_registered"} => sooner' = 3
        /\ (wpc = "r_serve" /\ wpc' # wpc) =>
             /\ g_task'.arg = sooner
             /\ g_task'.res = sooner'
             /\ wpc' = IF sooner' > 0 THEN "r_lock" ELSE "r_zero"
        /\ (wpc' = "r_serve" /\ wpc # wpc') => wpc \in {"r_registered", "r_check"}
        /\ (wpc' = "r_waiting" /\ wpc # wpc') =>
             /\ g_task.res > 0
             /\ g_task.timeout = 0
             /\ g_task'.timeout = g_task.res
        /\ (wpc' = "r_check" /\ wpc # wpc') =>
             IF g_task.res > 0
               THEN /\ sooner' = g_task.res
                    /\ g_task'.timeout = g_task.res
                    /\ g_task'.wake \in {"notified", "timeout", "spurious"}
               ELSE /\ sooner' = 1
                    /\ g_task'.timeout = 0
                    /\ g_task'.wake = "none"
        /\ (wpc = "r_check" /\ wpc' # wpc) =>
             wpc' = IF stop_requested THEN "r_done" ELSE "r_serve"
        /\ (wpc' = "r_done" /\ wpc # wpc') => wpc = "r_check"]_vars

C18_Witness ==
  /\ wpc = "r_done"
  /\ g_task.arg = 1
  /\ g_task.res = 2
  /\ g_task.timeout = 2
  /\ g_task.wake = "timeout"
  /\ sooner = 2
  /\ stop_requested

\* C19: a stop requested while runTask is in its loop, waiting included,
\* makes the stop callback registered by runTask notify the event: the
\* callback runs in the step of the request, and a worker that waits is
\* released by it.
C19_ObserverNotifies ==
  [][(~stop_requested /\ stop_requested' /\ wpc \in RunLoop) =>
       /\ g_task'.observer = g_task.observer + 1
       /\ wpc = "r_waiting" => notified']_vars

\* C20: once the owner has requested the stop, then notified the event, and
\* is in task.stop(), the worker is never in a wait that no notification
\* will end, that is, a wait that has to run to its timeout.
C20_PromptStop ==
  (hpc = "t_joining" /\ g_task.hostNotified) =>
    ~(wpc = "r_waiting" /\ ~notified)

\* C21: in the host, once main has requested the stop, notified the event
\* under its mutex and waits in join(), the worker is never in a wait that
\* no notification will end, that is, a wait that has to run its whole
\* duration, wherever the worker was when the stop was requested.
C21_WorkerWokenPromptly ==
  hpc = "join" => ~(wpc = "w_waiting" /\ ~notified)

\* C22: task.stop() never ends the worker by force: the step in which
\* stop() returns from join() finds runTask returned, and runTask returns
\* only from the test of the token with the stop requested; so a stop() on
\* a started task whose stop was never requested does not return.
C22_StopWaitsForWorker ==
  [][/\ (hpc = "t_joining" /\ hpc' # "t_joining") =>
          /\ wpc = "r_done"
          /\ stop_requested
          /\ wpc' = "joined"
     /\ (wpc' = "r_done" /\ wpc # "r_done") =>
          (wpc = "r_check" /\ stop_requested)]_vars

C22_Witness ==
  /\ hpc = "t_main"
  /\ g_task.lastStop = "joined"
  /\ wpc = "joined"
  /\ g_task.live = 0
  /\ stop_requested

\* C23: task.stop() on a controller without a joinable thread, one that
\* was never started or one whose thread a former stop() has joined,
\* returns in the step of the call: the owner is not blocked and nothing
\* of the worker, the token or the event changes.
C23_StopIdempotent ==
  [][(g_task'.stops = g_task.stops + 1 /\ wpc \in {"unstarted", "joined"}) =>
       /\ hpc' = "t_main"
       /\ g_task'.lastStop = "immediate"
       /\ UNCHANGED <<wpc, stop_requested, stop_cb, event_mutex, notified,
                      sooner>>]_vars

C23_Witness ==
  /\ hpc = "t_main"
  /\ g_task.starts = 1
  /\ g_task.stops = 2
  /\ g_task.lastStop = "immediate"
  /\ wpc = "joined"

\* runTask is on its thread and has not returned
WorkerLive == wpc \notin {"unstarted", "r_done", "joined", "terminated"}

\* C24: a stop that was requested stays requested; under the scheduling of
\* SpecTaskLive a worker that is live when the stop is requested comes to
\* the test of the token and returns (unless the process is terminated
\* first), and a task.stop() that waits in join() after the request
\* returns.
C24_CancellationObserved ==
  /\ [][stop_requested => stop_requested']_vars
  /\ (stop_requested /\ WorkerLive) ~> ~WorkerLive
  /\ (hpc = "t_joining" /\ stop_requested) ~> (hpc = "t_main" /\ wpc = "joined")

C24_Witness ==
  /\ hpc = "t_main"
  /\ wpc = "joined"
  /\ stop_requested
  /\ g_task.wake = "timeout"
  /\ ~g_task.hostNotified
  /\ g_task.observer = 0

\* C25: at most one worker thread of the task is live at any time, and the
\* process is never ended by a start().
C25_SingleWorker ==
  g_task.live <= 1 /\ hpc # "t_aborted"

\* the positions of main from the end of the poll loop to the call of
\* closeAll()
Shutdown == {"request_stop", "lock", "notify", "unlock", "join", "callClose"}

\* C26: main shuts down in the order request_stop(), lock, notify_all(),
\* unlock, join(), closeAll(): every position of the shutdown is entered
\* from the one before it only, the notification comes after the request
\* and with the mutex held, join() returns when the worker has ended, the
\* close callback begins only in the call of closeAll() after the join,
\* and after that call main never calls closeAll() again.
C26_ShutdownOrder ==
  [][/\ (hpc' = "lock" /\ hpc # "lock") =>
          (hpc = "request_stop" /\ stop_requested')
     /\ (hpc' = "notify" /\ hpc # "notify") =>
          (hpc = "lock" /\ event_mutex' = "main")
     /\ (hpc' = "unlock" /\ hpc # "unlock") =>
          /\ hpc = "notify"
          /\ stop_requested
          /\ event_mutex = "main"
          /\ wpc = "w_waiting" => notified'
     /\ (hpc' = "join" /\ hpc # "join") => hpc = "unlock"
     /\ (hpc' = "callClose" /\ hpc # "callClose") =>
          (hpc = "join" /\ wpc = "w_done" /\ wpc' = "joined")
     /\ (hpc' = "closeAll" /\ hpc # "closeAll") => hpc = "callClose"
     /\ (pc' = "closeAll_cb" /\ pc # "closeAll_cb") =>
          (hpc = "callClose" /\ wpc = "joined" /\ stop_requested)
     /\ pc' = "closeAll_cb" => wpc' = "joined"
     /\ hpc \in {"closeAll", "exited"} => hpc' \in {"closeAll", "exited"}]_vars

C26_Witness ==
  /\ hpc = "closeAll"
  /\ pc = "closeAll_cb"
  /\ g_cbs = << <<"close", "f1">> >>
  /\ wpc = "joined"
  /\ stop_requested

\* isRunning() is in progress or was the last call, and a reload or user
\* callback it invoked returned false
FailedPoll == g_op = "isRunning" /\ g_cbOut = "Failed"

\* C27: in the host, a reload / user1 / user2 callback that returns false
\* leaves the state Stop; the isRunning() that invoked it returns false;
\* from then on no callback is invoked before the close callback, and main
\* leaves the poll loop and goes through the shutdown to closeAll().
C27_FailureEndsLoop ==
  [][/\ (pc \in {"callback_Reload", "callback_User1", "callback_User2"}
           /\ pc' # pc /\ g_cbOut' = "Failed") => m_State' = "Stop"
     /\ (FailedPoll /\ pc = "isRunning_ret" /\ pc' = "idle") => ret' = FALSE
     /\ FailedPoll => (g_cbs' = g_cbs \/ g_op' = "closeAll")
     /\ (FailedPoll /\ hpc' # hpc) => hpc' \in Shutdown \cup {"closeAll"}]_vars

C27_Witness ==
  /\ FailedPoll
  /\ hpc = "callClose"
  /\ g_cbs = << <<"reload", "f1">> >>
  /\ ret = FALSE
  /\ wpc = "joined"

\* C28: when main has returned, the last member function it called is
\* startAll(), makeDaemon() or closeAll(); after startAll() or makeDaemon()
\* the result was false, the status is 1, no worker was started, no stop
\* was requested and no poll was made; after closeAll() the status is 1
\* when the result was false and 0 otherwise, and the worker was joined.
\* main goes on after startAll() and makeDaemon() only when the result was
\* not false.
C28_ExitStatus ==
  /\ hpc = "exited" =>
       /\ g_op \in {"startAll", "makeDaemon", "closeAll"}
       /\ pc = "idle"
       /\ g_op \in {"startAll", "makeDaemon"} =>
            /\ ret = "Failed"
            /\ exitCode = 1
            /\ wpc = "unstarted"
            /\ ~stop_requested
       /\ g_op = "closeAll" =>
            /\ exitCode = IF ret = "Failed" THEN 1 ELSE 0
            /\ wpc = "joined"
  /\ (hpc \in {"makeDaemon", "spawn"} \/ wpc # "unstarted") =>
       (g_op \in {"startAll", "makeDaemon"} => ret # "Failed")

C28_Witness ==
  /\ hpc = "exited"
  /\ g_op = "makeDaemon"
  /\ exitCode = 1
  /\ procPid = DetachedPid
  /\ wpc = "unstarted"

\* C30: an isRunning() that follows setState(Stop), with no signal in
\* between, finds the state Stop, invokes no callback and returns false;
\* one that follows setState(Reload) finds the state Reload, invokes the
\* registered reload callback once and nothing else, and returns true unless
\* the callback returned false.
C30_SetStateForces ==
  /\ (QuietPoll /\ g_prevOp = "setState_Stop") =>
       /\ g_atCall = "Stop"
       /\ g_cbs = <<>>
       /\ ret = FALSE
       /\ m_State = "Stop"
  /\ (QuietPoll /\ g_prevOp = "setState_Reload") =>
       /\ g_atCall = "Reload"
       /\ g_cbs = IF m_HandlerReload # Empty
                    THEN << <<"reload", m_HandlerReload>> >> ELSE <<>>
       /\ ret = (g_cbOut # "Failed")
       /\ m_State = IF g_cbOut = "Failed" THEN "Stop" ELSE "Running"

C30_Witness ==
  /\ QuietPoll
  /\ g_prevOp = "setState_Reload"
  /\ g_cbs = << <<"reload", "f1">> >>
  /\ g_cbOut = "Succeeded"
  /\ ret = TRUE
  /\ m_State = "Running"

\* no callback is registered in any of the five slots
NoCallbacks ==
  /\ m_HandlerBeforeToStart = Empty
  /\ m_HandlerReload = Empty
  /\ m_HandlerUser1 = Empty
  /\ m_HandlerUser2 = Empty
  /\ m_HandlerBeforeToExit = Empty

Callback(slot) ==
  CASE slot = "start"  -> m_HandlerBeforeToStart
    [] slot = "reload" -> m_HandlerReload
    [] slot = "user1"  -> m_HandlerUser1
    [] slot = "user2"  -> m_HandlerUser2
    [] slot = "close"  -> m_HandlerBeforeToExit

\* C31: when a setter has returned, its slot holds the closure it was
\* given, whatever the slot held before; a step changes a slot only if it
\* is the call of the setter of that slot, and the call of a setter leaves
\* the state and the four other slots alone; a callback that is invoked is
\* the closure its slot holds at that moment, so the one registered last.
C31_SettersLastWriteWins ==
  [][/\ \A slot \in Slots : \A f \in Closures \cup {Empty} :
          (g_op' = "set_" \o slot \o "_" \o f /\ ~g_sigSince') =>
            /\ Callback(slot)' = f
            /\ \A other \in Slots \ {slot} : Callback(other)' = Callback(other)
            /\ m_State' = m_State
            /\ pc' = "idle"
     /\ \A slot \in Slots :
          Callback(slot)' # Callback(slot) =>
            (g_op' = "set_" \o slot \o "_" \o Callback(slot)' /\ ~g_sigSince')
     /\ Len(g_cbs') > Len(g_cbs) =>
          LET e == g_cbs'[Len(g_cbs')]
          IN  e[2] = Callback(e[1]) /\ e[2] # Empty]_vars

C31_Witness ==
  /\ g_op = "isRunning"
  /\ g_cbs = << <<"reload", "f2">> >>
  /\ m_HandlerReload = "f2"
  /\ m_HandlerUser1 = "f1"
  /\ m_HandlerBeforeToStart = "f1"
  /\ m_HandlerBeforeToExit = Empty

\* C32: in daemon_app, once getopt_long has met an option it does not
\* know, an option without its required argument or an option with an
\* empty argument, main has exited with status 1 and is never past
\* process_command_line, so startAll() is not called.
C32_BadCommandLineExits ==
  g_cmd.bad # "none" =>
    /\ hpc = "exited"
    /\ exitCode = 1
    /\ g_op # "startAll"

\* C39: in daemon_simple, the iteration of process_command_line that gets
\* the option -T sets isDaemon to false and hasTestConsole to true and
\* does not exit.
C39_TestOption ==
  [][(hpc = "s_getopt" /\ g_cmd'.word = "-T" /\ cmdLine' # cmdLine) =>
       /\ daemonConfig'.isDaemon = FALSE
       /\ daemonConfig'.hasTestConsole = TRUE
       /\ hpc' # "exited"]_vars

\* C33: in the host, which polls only after startAll(), every return of
\* isRunning() with the value false leaves the state Stop.
C33_FalseMeansStop ==
  [][(pc = "isRunning_ret" /\ pc' = "idle" /\ ret' = FALSE) =>
       m_State' = "Stop"]_vars

\* the signal delivered last was an interrupt or a terminate signal
LastSignalStops ==
  /\ Len(cout) = 2
  /\ cout[2] \in {kExitSignal, kTerminateSignal}

\* C34: an isRunning() that found a transient state, and during which
\* signals were delivered of which the last is a stop signal, returns false
\* and leaves the state Stop.
C34_StopSignalSurvivesReset ==
  [][(pc = "isRunning_ret" /\ pc' = "idle" /\ g_atCall \in Transient
        /\ g_sigSince /\ LastSignalStops) =>
       (ret' = FALSE /\ m_State' = "Stop")]_vars

\* the positions of main before the call of startAll()
BeforeStartAll ==
  {"main", "setStart", "setClose", "setReload", "setUser1", "setUser2",
   "callStart"}

\* C38: as long as main has not called startAll() the state is Start.
C38_StartBeforeStartAll ==
  hpc \in BeforeStartAll => m_State = "Start"

\* C35: in a host without test console that is between two polls of its
\* loop, when the signal delivered last was an interrupt or a terminate
\* signal, the state is Stop, so that the next isRunning() returns false
\* and main goes on to the cancellation, the join, closeAll() and the exit.
C35_StopSignalEndsLoop ==
  (/\ ~daemonConfig.hasTestConsole
   /\ hpc = "while"
   /\ pc = "idle"
   /\ LastSignalStops) => m_State = "Stop"

\* a step in which runTask calls serveFunction
ServeStep == wpc = "r_serve" /\ wpc' \in {"r_lock", "r_zero"}

\* C36: a thread of runTask that has ended has called serveFunction, also
\* when the stop was requested before the thread was started; at most one
\* call of serveFunction begins with the stop requested; and no call is made
\* by a thread whose test of the token has seen the request.
C36_ServeOnceMore ==
  [][/\ wpc' = "r_done" => g_task'.served = 1
     /\ g_task'.after <= 1
     /\ ServeStep => ~g_task.observed
     /\ (g_task.observed /\ g_task'.starts = g_task.starts) =>
          wpc' \in {"r_done", "joined", "terminated"}]_vars

\* the second thread was started with the stop requested, called
\* serveFunction once and ended
C36_Witness ==
  /\ g_task.starts = 2
  /\ wpc = "r_done"
  /\ g_task.served = 1
  /\ g_task.after = 1
  /\ g_task.observed

\* main is in its shutdown sequence, from request_stop() to join()
HostShutdown == hpc \in {"request_stop", "lock", "notify", "unlock", "join"}

\* the step of the shutdown sequence main is at
HostHandoff ==
  \/ HostRequestStop
  \/ HostLock
  \/ HostNotify
  \/ HostUnlock
  \/ HostJoin

\* C37: in no state of the shutdown sequence are main and the worker both
\* unable to take a step: main waits for the mutex or in join() only while
\* the worker can go on, and while main waits in join() for a worker that
\* has not ended, the stop is requested, main does not hold the mutex and
\* the worker can take its next step.
C37_HandoffNeverStuck ==
  /\ HostShutdown => (ENABLED HostHandoff \/ ENABLED TaskAppContextFunc)
  /\ (hpc = "join" /\ wpc # "w_done") =>
       (stop_requested /\ event_mutex # "main" /\ ENABLED TaskAppContextFunc)

\* main waits in join() while the worker, which has missed both
\* notifications, is blocked in wait_for and the mutex is free
C37_Witness ==
  /\ hpc = "join"
  /\ wpc = "w_waiting"
  /\ ~notified
  /\ event_mutex = "free"
  /\ stop_requested

\* the stop state of the token of thread k: the one it got, or the one
\* stopSource refers to while the thread has not yet called get_token()
TokenOf(k) == IF threadPos[k] = "entry" THEN stopSource ELSE threadToken[k]

\* C40: while start() waits in the join of the move assignment for the
\* thread started before, that thread has ended or the stop state of its
\* token has the stop request, so that the thread ends and start() returns.
C40_StartReturns ==
  hpc = "app_assign" =>
    \/ threadPos[taskAppContextThread] = "done"
    \/ TokenOf(taskAppContextThread) \in stopState

====
